---- MODULE Spec2Model ----
(***************************************************************************)
(* State-machine model of the discrete-time simulation core of BrainPy:    *)
(*   - brainpy/math/delayvars.py     TimeDelay and LengthDelay ring buffers *)
(*   - brainpy/core_system/network.py  Network (add / build / run)          *)
(*   - npbrain/core/neuron_group.py   NeuGroup (instantiation of a group)   *)
(*   - brainpy/integrators/runner.py IntegratorRunner (run calls, steps)  *)
(*                                                                         *)
(* Conventions.                                                            *)
(*  * Time is an integer number of units of 1e-6 (the tolerance of the      *)
(*    TimeDelay upper-bound check), so dt, delay_len, t0, current_time and  *)
(*    query times are integers and all arithmetic is exact.                 *)
(*  * One stored sample is one integer: every buffer operation acts on     *)
(*    whole ring rows, so the row is what is modelled.                      *)
(*  * A value returned by a TimeDelay read is a rational; it is kept as    *)
(*    the integer num = value * dt (the interpolation divides by dt only).  *)
(*  * A ring, data, is a function on 0 .. num_delay_step-1.                 *)
(***************************************************************************)
EXTENDS Integers, Sequences, FiniteSets, TLC

VARIABLES
  td,        \* the TimeDelay object (its fields), or NoObj
  td_res,    \* outcome of the TimeDelay.__call__ that has not returned yet, or NoRes
  td_hist,   \* history: samples written to td since construction/reset, oldest first
  ld,        \* the LengthDelay object, or NoObj
  ld_res,    \* outcome of the LengthDelay.__call__ that has not returned yet, or NoRes
  ld_hist,   \* history: samples written to ld since construction/reset
  net,       \* the Network object, or NoObj
  run,       \* the Network.run call in progress (its locals), or Idle
  ens,       \* the ensembles offered to the Network: state, monitors, runner
  net_hist,  \* history of the Network: successful registrations, builds, ticks
  neu,       \* the NeuGroup object (npbrain), or NoObj
  neu_hist,  \* history of the NeuGroup: the last call, the run in progress
  ir,        \* the IntegratorRunner object, or NoObj
  ir_run,    \* the IntegratorRunner.__call__ in progress (its locals), or NoObj
  ir_hist    \* history of the IntegratorRunner: calls, steps of the current call

vars == <<td, td_res, td_hist, ld, ld_res, ld_hist, net, run, ens, net_hist, neu, neu_hist,
          ir, ir_run, ir_hist>>

delay_vars == <<td, td_res, td_hist, ld, ld_res, ld_hist>>
net_vars == <<net, run, ens, net_hist>>
neu_vars == <<neu, neu_hist>>
int_vars == <<ir, ir_run, ir_hist>>

-----------------------------------------------------------------------------
(* Bounds of the model *)

MaxDt == 2          \* dt is 1 or MaxDt
MaxDelayLen == 2    \* delay_len ranges over 0 .. MaxDelayLen
MaxUpdates == 2     \* updates per buffer between two resets
MaxVal == 1         \* a sample written by the user is 0 or MaxVal

(* Program constants *)

Tol == 1            \* the 1e-6 slack of the upper-bound check, in time units

_FUNC_BEFORE == "function"
_DATA_BEFORE == "data"
_INTERP_LINEAR == "linear_interp"
_INTERP_ROUND == "round"

NoObj == [exists |-> FALSE]
NoRes == [status |-> "none"]

Vals == {0, MaxVal}

Dts == {1, MaxDt}

\* the sample shapes: a scalar, (), and a vector, (3,)
Shapes == {<<>>, <<3>>}

\* a value of shape vshape can be assigned to (broadcast into) a row of shape
\* shape: numpy broadcasting, for the shapes above
Broadcastable(vshape, shape) == vshape = <<>> \/ vshape = shape

-----------------------------------------------------------------------------
(* Arithmetic of the numeric substrate *)

\* jnp.ceil(a / b) for a >= 0, b > 0
Ceil(a, b) == (a + b - 1) \div b

\* jnp.asarray(a / b, dtype=int32): conversion to integer truncates toward zero
TruncDiv(a, b) == IF a >= 0 THEN a \div b ELSE -((-a) \div b)

\* jnp.round(a / b): round half to even
RoundDiv(a, b) ==
  LET q == a \div b
      r == a - q * b
  IN  IF 2 * r < b THEN q
      ELSE IF 2 * r > b THEN q + 1
      ELSE IF q % 2 = 0 THEN q ELSE q + 1

\* x[i] with a dynamic (array) index i on an axis of size n: a negative index
\* counts from the end, and an index out of bounds is clamped (JAX gather)
GetIndex(i, n) ==
  LET j == IF i < 0 THEN i + n ELSE i
  IN  IF j < 0 THEN 0 ELSE IF j > n - 1 THEN n - 1 ELSE j

\* jnp.interp(x, [0, dt], [f0, f1]) * dt : linear inside [0, dt], constant outside
Interp(x, dt, f0, f1) ==
  IF x <= 0 THEN f0 * dt
  ELSE IF x >= dt THEN f1 * dt
  ELSE f0 * dt + x * (f1 - f0)

-----------------------------------------------------------------------------
(* TimeDelay *)

\* the values accepted for the argument before_t0
BeforeArgs ==
  {[kind |-> "none"], [kind |-> "tensor"], [kind |-> "callable"],
   [kind |-> "scalar", c |-> MaxVal]}

\* the tensor given as before_t0 / initial_delay_data: row i holds i, as in
\* the tests (jnp.arange)
TensorRow(i) == i

\* the function given as before_t0: lambda t: t
before_t0_fn(t) == t

\* self.data[:-1] = before ; self.data[-1] = delay_target, on a ring of n zeros
FillData(n, before, delay_target) ==
  [i \in 0 .. n - 1 |->
     IF i = n - 1 THEN delay_target
     ELSE IF before.kind = "scalar" THEN before.c
     ELSE IF before.kind = "tensor" THEN TensorRow(i)
     ELSE 0]

TimeDelay_init(delay_target, shape, delay_len, before_t0, t0, dt, interp_method) ==
  LET n == Ceil(delay_len, dt) + 1
  IN  [exists |-> TRUE,
       shape |-> shape,
       t0 |-> t0,
       dt |-> dt,
       delay_len |-> delay_len,
       num_delay_step |-> n,
       interp_method |-> interp_method,
       idx |-> 0,
       current_time |-> t0,
       before_type |-> IF before_t0.kind = "callable" THEN _FUNC_BEFORE ELSE _DATA_BEFORE,
       data |-> FillData(n, before_t0, delay_target)]

\* reset assigns delay_len .. current_time first and raises ValueError afterwards
\* when before_t0 is not numerical; self.t0 and self.shape are not assigned: the
\* ring is allocated with the old shape and delay_target is broadcast into it
TimeDelay_reset(self, delay_target, delay_len, t0, before_t0) ==
  LET n == Ceil(delay_len, self.dt) + 1
  IN  [self EXCEPT
         !.delay_len = delay_len,
         !.num_delay_step = n,
         !.data = FillData(n, IF before_t0.kind = "callable" THEN [kind |-> "none"] ELSE before_t0,
                           delay_target),
         !.idx = 0,
         !.current_time = t0,
         !.before_type = IF before_t0.kind \in {"scalar", "tensor"} THEN _DATA_BEFORE ELSE @]

\* variant: the ring is kept in time order: every slot takes the sample of the
\* next one and the new sample is written to the last slot
TimeDelay_update_Roll(self, time, value, vshape) ==
  IF ~Broadcastable(vshape, self.shape)
  THEN [self |-> self, raised |-> "BroadcastError"]
  ELSE [self |-> [self EXCEPT
                    !.data = [i \in DOMAIN @ |->
                                IF i = self.num_delay_step - 1 THEN value ELSE @[i + 1]],
                    !.current_time = time,
                    !.idx = (self.idx + 1) % self.num_delay_step],
        raised |-> "None"]

\* variant: the index is advanced before the sample is written
TimeDelay_update_AdvanceFirst(self, time, value, vshape) ==
  IF ~Broadcastable(vshape, self.shape)
  THEN [self |-> self, raised |-> "BroadcastError"]
  ELSE [self |-> [self EXCEPT
                    !.data = [@ EXCEPT ![(self.idx + 1) % self.num_delay_step] = value],
                    !.current_time = time,
                    !.idx = (self.idx + 1) % self.num_delay_step],
        raised |-> "None"]

\* TimeDelay.update(time, value) with jnp.shape(value) = vshape: the shape is not
\* compared with self.shape; the row assignment broadcasts value, and raises
\* only when value cannot be broadcast
TimeDelay_update(self, time, value, vshape) ==
  IF ~Broadcastable(vshape, self.shape)
  THEN [self |-> self, raised |-> "BroadcastError"]
  ELSE [self |-> [self EXCEPT
                    !.data = [@ EXCEPT ![self.idx] = value],
                    !.current_time = time,
                    !.idx = (self.idx + 1) % self.num_delay_step],
        raised |-> "None"]

_true_fn(self, req_num_step) ==
  self.data[GetIndex(self.idx + req_num_step, self.num_delay_step)] * self.dt

_false_fn(self, req_num_step, extra) ==
  LET i0 == (self.idx + req_num_step) % self.num_delay_step
      i1 == (self.idx + req_num_step + 1) % self.num_delay_step
  IN  Interp(extra, self.dt, self.data[i0], self.data[i1])

\* _after_t0, linear mode (lines 226-231): diff, req_num_step = diff / dt
\* converted to int32, and extra = diff - req_num_step * dt
LinearSteps(self, prev_time) ==
  LET diff == self.delay_len - (self.current_time - prev_time)
      req_num_step == TruncDiv(diff, self.dt)
  IN  [diff |-> diff, req_num_step |-> req_num_step,
       extra |-> diff - req_num_step * self.dt]

_after_t0(self, prev_time) ==
  LET diff == self.delay_len - (self.current_time - prev_time)
  IN  IF self.interp_method = _INTERP_LINEAR
      THEN LET req_num_step == LinearSteps(self, prev_time).req_num_step
               extra == LinearSteps(self, prev_time).extra
           IN  IF extra = 0 THEN _true_fn(self, req_num_step)
               ELSE _false_fn(self, req_num_step, extra)
      ELSE _true_fn(self, RoundDiv(diff, self.dt))

\* variant: the lower bound is checked one more step back
TimeDelay_call_LooseLower(self, time, checking) ==
  IF checking /\ time > self.current_time + Tol
  THEN [status |-> "ValueError", check |-> "_check_time1", time |-> time, checking |-> checking]
  ELSE IF checking /\ time < self.current_time - self.delay_len - 2 * self.dt
  THEN [status |-> "ValueError", check |-> "_check_time2", time |-> time, checking |-> checking]
  ELSE [status |-> "ok", time |-> time, checking |-> checking, shape |-> self.shape,
        from |-> IF self.before_type = _FUNC_BEFORE /\ time < self.t0
                 THEN "before_t0" ELSE "ring",
        num |-> IF self.before_type = _FUNC_BEFORE /\ time < self.t0
                THEN before_t0_fn(time) * self.dt
                ELSE _after_t0(self, time)]

\* variant: the before-start function also serves the query at t0 itself
TimeDelay_call_BeforeInclusive(self, time, checking) ==
  IF checking /\ time > self.current_time + Tol
  THEN [status |-> "ValueError", check |-> "_check_time1", time |-> time, checking |-> checking]
  ELSE IF checking /\ time < self.current_time - self.delay_len - self.dt
  THEN [status |-> "ValueError", check |-> "_check_time2", time |-> time, checking |-> checking]
  ELSE [status |-> "ok", time |-> time, checking |-> checking, shape |-> self.shape,
        from |-> IF self.before_type = _FUNC_BEFORE /\ time <= self.t0
                 THEN "before_t0" ELSE "ring",
        num |-> IF self.before_type = _FUNC_BEFORE /\ time <= self.t0
                THEN before_t0_fn(time) * self.dt
                ELSE _after_t0(self, time)]

\* TimeDelay.__call__(time) with check.is_checking() = checking; the value of
\* before_t0(time) is broadcast to self.shape, a ring row has that shape too
TimeDelay_call(self, time, checking) ==
  IF checking /\ time > self.current_time + Tol
  THEN [status |-> "ValueError", check |-> "_check_time1", time |-> time, checking |-> checking]
  ELSE IF checking /\ time < self.current_time - self.delay_len - self.dt
  THEN [status |-> "ValueError", check |-> "_check_time2", time |-> time, checking |-> checking]
  ELSE [status |-> "ok", time |-> time, checking |-> checking, shape |-> self.shape,
        from |-> IF self.before_type = _FUNC_BEFORE /\ time < self.t0
                 THEN "before_t0" ELSE "ring",
        num |-> IF self.before_type = _FUNC_BEFORE /\ time < self.t0
                THEN before_t0_fn(time) * self.dt
                ELSE _after_t0(self, time)]

-----------------------------------------------------------------------------
(* LengthDelay *)

\* the values accepted for the argument initial_delay_data
InitialDataArgs ==
  {[kind |-> "none"], [kind |-> "tensor"], [kind |-> "callable"],
   [kind |-> "scalar", c |-> MaxVal]}

\* the callable given as initial_delay_data: an initializer returning ones
initial_delay_data_fn(i) == 1

\* self.data[:-1] = initial_delay_data ; self.data[-1] = delay_target
FillLengthData(n, initial_delay_data, delay_target) ==
  [i \in 0 .. n - 1 |->
     IF i = n - 1 THEN delay_target
     ELSE IF initial_delay_data.kind = "scalar" THEN initial_delay_data.c
     ELSE IF initial_delay_data.kind = "tensor" THEN TensorRow(i)
     ELSE IF initial_delay_data.kind = "callable" THEN initial_delay_data_fn(i)
     ELSE 0]

\* LengthDelay.__init__ is reset on an object whose fields are all None
LengthDelay_reset(delay_target, shape, delay_len, initial_delay_data) ==
  [exists |-> TRUE,
   shape |-> shape,
   num_delay_step |-> delay_len + 1,
   idx |-> 0,
   data |-> FillLengthData(delay_len + 1, initial_delay_data, delay_target)]

\* variant: the index is advanced without wrapping
LengthDelay_update_NoWrap(self, value, vshape) ==
  IF vshape # self.shape
  THEN [self |-> self, raised |-> "ValueError"]
  ELSE [self |-> [self EXCEPT
                    !.data = [@ EXCEPT ![self.idx] = value],
                    !.idx = self.idx + 1],
        raised |-> "None"]

\* LengthDelay.update(value) with jnp.shape(value) = vshape
LengthDelay_update(self, value, vshape) ==
  IF vshape # self.shape
  THEN [self |-> self, raised |-> "ValueError"]
  ELSE [self |-> [self EXCEPT
                    !.data = [@ EXCEPT ![self.idx] = value],
                    !.idx = (self.idx + 1) % self.num_delay_step],
        raised |-> "None"]

\* variant: the read index is taken without the - 1
LengthDelay_call_OffByOne(self, delay_len, checking) ==
  IF checking /\ delay_len >= self.num_delay_step
  THEN [status |-> "ValueError", check |-> "_check_delay",
        delay_len |-> delay_len, checking |-> checking]
  ELSE LET delay_idx == (self.idx - delay_len) % self.num_delay_step
       IN  [status |-> "ok", delay_len |-> delay_len, checking |-> checking,
            delay_idx |-> delay_idx, value |-> self.data[delay_idx]]

\* LengthDelay.__call__(delay_len) with check.is_checking() = checking
LengthDelay_call(self, delay_len, checking) ==
  IF checking /\ delay_len >= self.num_delay_step
  THEN [status |-> "ValueError", check |-> "_check_delay",
        delay_len |-> delay_len, checking |-> checking]
  ELSE LET delay_idx == (self.idx - delay_len - 1) % self.num_delay_step
       IN  [status |-> "ok", delay_len |-> delay_len, checking |-> checking,
            delay_idx |-> delay_idx, value |-> self.data[delay_idx]]

-----------------------------------------------------------------------------
(* The delay buffers as a state machine: one buffer of either class is      *)
(* constructed, then updated, read and reset in any order.                  *)

T0s == {0, 1}

\* history of a buffer: the samples written since construction or the last
\* reset (oldest first), the arguments of that construction or reset, the last
\* operation that changed or tried to change the buffer, the shape of the
\* value it was given and the exception it raised
NewHist(args, was_reset, raised) ==
  [w |-> <<args.delay_target>>, was_reset |-> was_reset, args |-> args,
   op |-> IF was_reset THEN "reset" ELSE "init", vshape |-> args.shape, raised |-> raised]

InitTimeDelay ==
  /\ \E delay_target \in Vals, shape \in Shapes, delay_len \in 0 .. MaxDelayLen, dt \in Dts,
        before_t0 \in BeforeArgs, interp_method \in {_INTERP_LINEAR, _INTERP_ROUND} :
       /\ td = TimeDelay_init(delay_target, shape, delay_len, before_t0, 0, dt, interp_method)
       /\ td_hist = NewHist([delay_target |-> delay_target, shape |-> shape,
                             delay_len |-> delay_len, t0 |-> 0, before |-> before_t0],
                            FALSE, "None")
  /\ td_res = NoRes
  /\ ld = NoObj /\ ld_res = NoRes /\ ld_hist = NoObj

InitLengthDelay ==
  /\ \E delay_target \in Vals, shape \in Shapes, delay_len \in 0 .. MaxDelayLen,
        initial_delay_data \in InitialDataArgs :
       /\ ld = LengthDelay_reset(delay_target, shape, delay_len, initial_delay_data)
       /\ ld_hist = NewHist([delay_target |-> delay_target, shape |-> shape,
                             delay_len |-> delay_len, initial |-> initial_delay_data],
                            FALSE, "None")
  /\ ld_res = NoRes
  /\ td = NoObj /\ td_res = NoRes /\ td_hist = NoObj

\* delay.update(t, value), once per tick: t is one dt after the last write, and
\* value is 0 or t, of either shape
TimeDelayUpdate ==
  /\ td.exists /\ td_res = NoRes
  /\ Len(td_hist.w) <= MaxUpdates
  /\ \E value \in {0, td.current_time + td.dt}, vshape \in Shapes :
       LET r == TimeDelay_update(td, td.current_time + td.dt, value, vshape)
       IN  /\ td' = r.self
           /\ td_hist' = [td_hist EXCEPT
                            !.w = IF r.raised = "None" THEN Append(@, value) ELSE @,
                            !.op = "update", !.vshape = vshape, !.raised = r.raised]
  /\ td_res' = NoRes
  /\ UNCHANGED <<ld, ld_res, ld_hist, net_vars, neu_vars, int_vars>>

\* delay(time) for a query time around the retained window
TimeDelayCall ==
  /\ td.exists /\ td_res = NoRes
  /\ \E checking \in BOOLEAN,
        time \in (td.current_time - td.delay_len - td.dt - 2) .. (td.current_time + Tol + 1) :
       td_res' = TimeDelay_call(td, time, checking)
  /\ UNCHANGED <<td, td_hist, ld, ld_res, ld_hist, net_vars, neu_vars, int_vars>>

\* the read returns (or raises) to its caller, which goes on to the next operation
TimeDelayReturn ==
  /\ td.exists /\ td_res # NoRes
  /\ td_res' = NoRes
  /\ UNCHANGED <<td, td_hist, ld, ld_res, ld_hist, net_vars, neu_vars, int_vars>>

\* delay.reset(delay_target, delay_len, t0, before_t0) with a delay_target that
\* can be assigned to a row of the ring
TimeDelayReset ==
  /\ td.exists /\ td_res = NoRes
  /\ \E delay_target \in {MaxVal}, shape \in Shapes, delay_len \in 0 .. MaxDelayLen,
        t0 \in T0s, before_t0 \in BeforeArgs :
       /\ Broadcastable(shape, td.shape)
       /\ td' = TimeDelay_reset(td, delay_target, delay_len, t0, before_t0)
       /\ td_hist' = NewHist([delay_target |-> delay_target, shape |-> shape,
                              delay_len |-> delay_len, t0 |-> t0, before |-> before_t0],
                             TRUE,
                             IF before_t0.kind = "callable" THEN "ValueError" ELSE "None")
  /\ td_res' = NoRes
  /\ UNCHANGED <<ld, ld_res, ld_hist, net_vars, neu_vars, int_vars>>

LengthDelayUpdate ==
  /\ ld.exists /\ ld_res = NoRes
  /\ Len(ld_hist.w) <= MaxUpdates
  /\ \E value \in Vals, vshape \in Shapes :
       LET r == LengthDelay_update(ld, value, vshape)
       IN  /\ ld' = r.self
           /\ ld_hist' = [ld_hist EXCEPT
                            !.w = IF r.raised = "None" THEN Append(@, value) ELSE @,
                            !.op = "update", !.vshape = vshape, !.raised = r.raised]
  /\ ld_res' = NoRes
  /\ UNCHANGED <<td, td_res, td_hist, net_vars, neu_vars, int_vars>>

LengthDelayCall ==
  /\ ld.exists /\ ld_res = NoRes
  /\ \E checking \in BOOLEAN, delay_len \in -2 .. ld.num_delay_step + 1 :
       ld_res' = LengthDelay_call(ld, delay_len, checking)
  /\ UNCHANGED <<ld, ld_hist, td, td_res, td_hist, net_vars, neu_vars, int_vars>>

LengthDelayReturn ==
  /\ ld.exists /\ ld_res # NoRes
  /\ ld_res' = NoRes
  /\ UNCHANGED <<ld, ld_hist, td, td_res, td_hist, net_vars, neu_vars, int_vars>>

\* delay.reset(delay_target, delay_len, initial_delay_data); delay_len = None
\* keeps the previous length
LengthDelayReset ==
  /\ ld.exists /\ ld_res = NoRes
  /\ \E delay_target \in {MaxVal}, shape \in Shapes,
        delay_len \in (0 .. MaxDelayLen) \cup {ld.num_delay_step - 1},
        initial_delay_data \in InitialDataArgs :
       /\ ld' = LengthDelay_reset(delay_target, shape, delay_len, initial_delay_data)
       /\ ld_hist' = NewHist([delay_target |-> delay_target, shape |-> shape,
                              delay_len |-> delay_len, initial |-> initial_delay_data],
                             TRUE, "None")
  /\ ld_res' = NoRes
  /\ UNCHANGED <<td, td_res, td_hist, net_vars, neu_vars, int_vars>>

InitDelay ==
  /\ InitTimeDelay \/ InitLengthDelay
  /\ net = NoObj /\ run = NoObj /\ ens = NoObj /\ net_hist = NoObj
  /\ neu = NoObj /\ neu_hist = NoObj
  /\ ir = NoObj /\ ir_run = NoObj /\ ir_hist = NoObj

NextDelay ==
  \/ TimeDelayUpdate
  \/ TimeDelayCall
  \/ TimeDelayReturn
  \/ TimeDelayReset
  \/ LengthDelayUpdate
  \/ LengthDelayCall
  \/ LengthDelayReturn
  \/ LengthDelayReset

SpecDelay == InitDelay /\ [][NextDelay]_vars

-----------------------------------------------------------------------------
(* Network *)

MaxObjs == 2        \* _add_obj calls per network
MaxRuns == 2        \* run / build calls per network
MaxDuration == 5    \* end - start of a run is at most MaxDuration
NetDt == 2          \* profile.get_dt(), the global time step

\* The objects offered to the network: a NeuGroup named "A", a SynConn named
\* "B", and an object that is neither (no name, no _build).
Objs == {"n1", "s1", "x1"}

\* ... and a second NeuGroup that was also given the name "A"
AddObjs == Objs \cup {"n2"}

ObjType(obj) ==
  IF obj \in {"n1", "n2"} THEN "NeuGroup" ELSE IF obj = "s1" THEN "SynConn" ELSE "object"

ObjName(obj) ==
  IF obj \in {"n1", "n2"} THEN "A" ELSE IF obj = "s1" THEN "B" ELSE "None"

\* keyword names used in add(name=obj); "None" stands for a nameless object
KwNames == {"None", "A", "C"}

EmptyDict == [k \in {} |-> "None"]

Network_init(mode) ==
  [exists |-> TRUE,
   all_neu_groups |-> <<>>,
   all_syn_conns |-> <<>>,
   all_objects |-> <<>>,
   objsets |-> EmptyDict,
   attrs |-> EmptyDict,        \* the attributes set by setattr(self, name, obj)
   t_start |-> 0,
   t_end |-> 0,
   t_duration |-> 0,
   mode |-> mode,
   step_func |-> NoObj]

\* variant: a name that is already in _objsets is given to the new object
_add_obj_Overwrite(self, obj, name) ==
  LET s1 == [self EXCEPT !.all_objects = Append(@, obj)]
      s2 == IF ObjType(obj) = "NeuGroup" THEN [s1 EXCEPT !.all_neu_groups = Append(@, obj)]
            ELSE IF ObjType(obj) = "SynConn" THEN [s1 EXCEPT !.all_syn_conns = Append(@, obj)]
            ELSE s1
      nm == IF name = "None" THEN ObjName(obj) ELSE name
  IN  IF ObjType(obj) \notin {"NeuGroup", "SynConn"}
      THEN [self |-> s2, raised |-> "ValueError"]
      ELSE [self |-> [s2 EXCEPT !.objsets = (nm :> obj) @@ @,
                                !.attrs = (ObjName(obj) :> obj) @@ ((nm :> obj) @@ @)],
            raised |-> "None"]

\* Network._add_obj(obj, name): the network after the call and the exception
\* raised, if any.  The object is appended to _all_objects before any check.
_add_obj(self, obj, name) ==
  LET s1 == [self EXCEPT !.all_objects = Append(@, obj)]
      s2 == IF ObjType(obj) = "NeuGroup" THEN [s1 EXCEPT !.all_neu_groups = Append(@, obj)]
            ELSE IF ObjType(obj) = "SynConn" THEN [s1 EXCEPT !.all_syn_conns = Append(@, obj)]
            ELSE s1
      nm == IF name = "None" THEN ObjName(obj) ELSE name
  IN  IF ObjType(obj) \notin {"NeuGroup", "SynConn"}
      THEN [self |-> s2, raised |-> "ValueError"]
      ELSE IF nm \in DOMAIN self.objsets
      THEN [self |-> s2, raised |-> "KeyError"]
      ELSE [self |-> [s2 EXCEPT !.objsets = (nm :> obj) @@ @,
                                !.attrs = (ObjName(obj) :> obj) @@ ((nm :> obj) @@ @)],
            raised |-> "None"]

\* the operations an input may name (core_system/constants.py)
INPUT_OPERATIONS == {"+", "-", "*", "/", "="}

\* an ensemble (NeuGroup or SynConn) before its first build: one state variable
\* x with a monitor, and a runner without inputs
NewEnsemble ==
  [ST |-> 0,
   mon |-> [x |-> <<>>, ts |-> <<>>],
   runner |-> [_inputs |-> EmptyDict, inp |-> EmptyDict]]

\* numpy shape of an input value, and the 'iter' / 'fix' classification
data_type(val, run_length) ==
  IF val.kind = "array" /\ val.shape[1] = run_length THEN "iter" ELSE "fix"

\* variant: a later input of a target replaces the earlier ones
AppendInput_Replace(formatted, target, item) ==
  IF \E i \in 1 .. Len(formatted) : formatted[i].target = target
  THEN [i \in 1 .. Len(formatted) |->
          IF formatted[i].target = target
          THEN [formatted[i] EXCEPT !.items = <<item>>]
          ELSE formatted[i]]
  ELSE Append(formatted, [target |-> target, items |-> <<item>>])

\* formatted_inputs[target].append(item), formatted_inputs being a sequence of
\* [target, items] in the order the targets were first seen
AppendInput(formatted, target, item) ==
  IF \E i \in 1 .. Len(formatted) : formatted[i].target = target
  THEN [i \in 1 .. Len(formatted) |->
          IF formatted[i].target = target
          THEN [formatted[i] EXCEPT !.items = Append(@, item)]
          ELSE formatted[i]]
  ELSE Append(formatted, [target |-> target, items |-> <<item>>])

\* Python values that occur in an inputs argument: strings, ensembles, tuples
\* (or lists) of values; numbers and arrays are the records of InputVals
Str(v) == [kind |-> "str", v |-> v]

Ensemble(obj) == [kind |-> "BrainEnsemble", v |-> obj]

Tuple(f) == [kind |-> "tuple", f |-> f]

\* variant: only the first specification is checked
RECURSIVE CheckLoop_FirstOnly(_)
CheckLoop_FirstOnly(inputs) ==
  IF inputs = <<>> THEN [raised |-> "None", why |-> "None"]
  ELSE LET inp == Head(inputs)
       IN  IF inp.kind # "tuple"
           THEN [raised |-> "TypeError", why |-> "fields"]
           ELSE IF ~(3 <= Len(inp.f) /\ Len(inp.f) <= 4)
           THEN [raised |-> "ModelUseError", why |-> "fields"]
           ELSE IF Len(inp.f) = 4
                   /\ ~(inp.f[4].kind = "str" /\ inp.f[4].v \in INPUT_OPERATIONS)
           THEN [raised |-> "ModelUseError", why |-> "operation"]
           ELSE [raised |-> "None", why |-> "None"]

\* the check loop of _format_inputs (lines 103-113): every specification has 3
\* or 4 fields, and a fourth field is one of INPUT_OPERATIONS
RECURSIVE CheckLoop(_)
CheckLoop(inputs) ==
  IF inputs = <<>> THEN [raised |-> "None", why |-> "None"]
  ELSE LET inp == Head(inputs)
       IN  IF inp.kind # "tuple"
           THEN [raised |-> "TypeError", why |-> "fields"]
           ELSE IF ~(3 <= Len(inp.f) /\ Len(inp.f) <= 4)
           THEN [raised |-> "ModelUseError", why |-> "fields"]
           ELSE IF Len(inp.f) = 4
                   /\ ~(inp.f[4].kind = "str" /\ inp.f[4].v \in INPUT_OPERATIONS)
           THEN [raised |-> "ModelUseError", why |-> "operation"]
           ELSE CheckLoop(Tail(inputs))

\* the format loop of _format_inputs (lines 116-157): target, key, value and
\* data type, operation, append
RECURSIVE FormatLoop(_, _, _, _)
FormatLoop(self, inputs, run_length, formatted) ==
  IF inputs = <<>> THEN [raised |-> "None", why |-> "None", formatted |-> formatted]
  ELSE LET inp == Head(inputs).f
           target == IF inp[1].kind = "str" THEN ObjName(self.attrs[inp[1].v])
                     ELSE ObjName(inp[1].v)
           ops == IF Len(inp) = 4 THEN inp[4].v ELSE "+"
       IN  IF inp[1].kind = "str" /\ inp[1].v \notin DOMAIN self.attrs
           THEN [raised |-> "AttributeError", why |-> "target", formatted |-> formatted]
           ELSE IF inp[1].kind \notin {"str", "BrainEnsemble"}
           THEN [raised |-> "KeyError", why |-> "target", formatted |-> formatted]
           ELSE IF inp[2].kind # "str"
           THEN [raised |-> "ModelUseError", why |-> "key", formatted |-> formatted]
           ELSE IF inp[3].kind \notin {"scalar", "array"}
           THEN [raised |-> "ModelUseError", why |-> "value", formatted |-> formatted]
           ELSE IF inp[3].kind = "array" /\ inp[3].shape = <<>>
           THEN [raised |-> "IndexError", why |-> "value", formatted |-> formatted]
           ELSE FormatLoop(self, Tail(inputs), run_length,
                  AppendInput(formatted, target,
                              [key |-> inp[2].v, val |-> inp[3], ops |-> ops,
                               data_type |-> data_type(inp[3], run_length)]))

\* Network._format_inputs(inputs, run_length): inputs is a tuple or list; one
\* whose first element is an ensemble is taken as a single specification and
\* wrapped, one whose first element is neither a tuple nor an ensemble raises
_format_inputs(self, inputs, run_length) ==
  IF inputs.kind # "tuple"
  THEN [raised |-> "ModelUseError", why |-> "inputs", formatted |-> <<>>]
  ELSE IF Len(inputs.f) > 0 /\ inputs.f[1].kind \notin {"tuple", "BrainEnsemble"}
  THEN [raised |-> "ModelUseError", why |-> "structure", formatted |-> <<>>]
  ELSE LET wrapped == IF Len(inputs.f) > 0 /\ inputs.f[1].kind # "tuple"
                      THEN <<inputs>> ELSE inputs.f
           c == CheckLoop(wrapped)
       IN  IF c.raised # "None"
           THEN [raised |-> c.raised, why |-> c.why, formatted |-> <<>>]
           ELSE FormatLoop(self, wrapped, run_length, <<>>)

\* format_inputs.get(name, None): the items of a target, <<>> for None
ItemsOf(formatted, name) ==
  IF \E i \in 1 .. Len(formatted) : formatted[i].target = name
  THEN (CHOOSE f \in {formatted[i] : i \in 1 .. Len(formatted)} : f.target = name).items
  ELSE <<>>

RECURSIVE InputsDict(_)
InputsDict(items) ==
  IF items = <<>> THEN EmptyDict
  ELSE LET it == items[Len(items)]
       IN  (it.key :> [val |-> it.val, ops |-> it.ops])
             @@ InputsDict(SubSeq(items, 1, Len(items) - 1))

\* obj._build(inputs, mon_length): the runner keeps the inputs and their
\* current values, and the monitor of x gets mon_length rows of zeros
Ensemble_build(e, items, mon_length) ==
  LET d == InputsDict(items)
  IN  [e EXCEPT !.mon.x = [i \in 1 .. mon_length |-> 0],
                !.runner = [_inputs |-> d, inp |-> [k \in DOMAIN d |-> d[k].val]]]

RECURSIVE BuildLoop(_, _, _, _)
BuildLoop(objects, formatted, mon_length, e) ==
  IF objects = <<>> THEN [raised |-> "None", ens |-> e]
  ELSE LET obj == Head(objects)
       IN  IF ObjType(obj) = "object"
           THEN [raised |-> "AttributeError", ens |-> e]
           ELSE BuildLoop(Tail(objects), formatted, mon_length,
                  [e EXCEPT ![obj] = Ensemble_build(@, ItemsOf(formatted, ObjName(obj)),
                                                    mon_length)])

\* variant: the objects are built before the inputs are looked at
build_ObjectsFirst(self, e, run_length, inputs, id) ==
  LET f == _format_inputs(self, inputs, run_length)
      b == BuildLoop(self.all_objects, f.formatted, run_length, e)
  IN  IF f.raised # "None"
      THEN [raised |-> f.raised, ens |-> b.ens, step_func |-> NoObj, fmt |-> f]
      ELSE IF b.raised # "None"
      THEN [raised |-> b.raised, ens |-> b.ens, step_func |-> NoObj, fmt |-> f]
      ELSE [raised |-> "None", ens |-> b.ens, fmt |-> f,
            step_func |-> [exists |-> TRUE, id |-> id, lines |-> self.all_objects,
                           mon_length |-> run_length]]

\* Network.build(run_length, inputs): the inputs are formatted, then every
\* object of _all_objects is built in that order (an object without name or
\* _build raises AttributeError after the objects before it were built); the
\* step function is the code lines of these objects, in that order; id stands
\* for the identity of the function object that exec creates
build(self, e, run_length, inputs, id) ==
  LET f == _format_inputs(self, inputs, run_length)
      b == BuildLoop(self.all_objects, f.formatted, run_length, e)
  IN  IF f.raised # "None"
      THEN [raised |-> f.raised, ens |-> e, step_func |-> NoObj, fmt |-> f]
      ELSE IF b.raised # "None"
      THEN [raised |-> b.raised, ens |-> b.ens, step_func |-> NoObj, fmt |-> f]
      ELSE [raised |-> "None", ens |-> b.ens, fmt |-> f,
            step_func |-> [exists |-> TRUE, id |-> id, lines |-> self.all_objects,
                           mon_length |-> run_length]]

\* the value of the state variable after an input with operation ops
ApplyOp(ops, x, v) ==
  IF ops = "=" THEN v
  ELSE IF ops = "+" THEN x + v
  ELSE IF ops = "-" THEN x - v
  ELSE IF ops = "*" THEN x * v
  ELSE x \div v

\* the code lines of one ensemble at step _i_: the input of x held by the
\* runner is applied to x with its operation, then the monitor records x in
\* row _i_
Ensemble_step(e, i) ==
  LET x == IF "x" \in DOMAIN e.runner._inputs
           THEN ApplyOp(e.runner._inputs["x"].ops, e.ST, e.runner.inp["x"].c)
           ELSE e.ST
  IN  [e EXCEPT !.ST = x,
                !.mon.x = [r \in DOMAIN @ |-> IF r = i + 1 THEN x ELSE @[r]]]

RECURSIVE StepLoop(_, _, _)
StepLoop(lines, e, i) ==
  IF lines = <<>> THEN e
  ELSE StepLoop(Tail(lines), [e EXCEPT ![Head(lines)] = Ensemble_step(@, i)], i)

\* one call of step_func(_t_, _i_, _dt_): the code lines of the objects run in
\* the order they were collected by build
step_func_call(step_func, e, i) == StepLoop(step_func.lines, e, i)

\* variant: the operation of a supplied input is not compared
RECURSIVE ResetItems_NoOpsCheck(_, _, _)
ResetItems_NoOpsCheck(e, items, all_keys) ==
  IF items = <<>>
  THEN [raised |-> IF all_keys # {} THEN "ModelUseError" ELSE "None",
        kind |-> IF all_keys # {} THEN "not provided" ELSE "None", e |-> e]
  ELSE LET it == Head(items)
           stored == e.runner._inputs
           e1 == [e EXCEPT !.runner.inp[it.key] = it.val]
       IN  IF it.key \notin DOMAIN stored
           THEN [raised |-> "KeyError", kind |-> "key", e |-> e]
           ELSE IF stored[it.key].val.shape # it.val.shape
           THEN [raised |-> "ModelUseError", kind |-> "shape", e |-> e]
           ELSE IF it.key \notin all_keys
           THEN [raised |-> "ValueError", kind |-> "remove", e |-> e1]
           ELSE ResetItems_NoOpsCheck(e1, Tail(items), all_keys \ {it.key})

\* run, repeat mode, inputs of one target (lines 235-250): every supplied input
\* is compared with the input of that key stored at build, then replaces the
\* runner's current value; keys left over raise
RECURSIVE ResetItems(_, _, _)
ResetItems(e, items, all_keys) ==
  IF items = <<>>
  THEN [raised |-> IF all_keys # {} THEN "ModelUseError" ELSE "None",
        kind |-> IF all_keys # {} THEN "not provided" ELSE "None", e |-> e]
  ELSE LET it == Head(items)
           stored == e.runner._inputs
           e1 == [e EXCEPT !.runner.inp[it.key] = it.val]
       IN  IF it.key \notin DOMAIN stored
           THEN [raised |-> "KeyError", kind |-> "key", e |-> e]
           ELSE IF stored[it.key].val.shape # it.val.shape
           THEN [raised |-> "ModelUseError", kind |-> "shape", e |-> e]
           ELSE IF stored[it.key].ops # it.ops
           THEN [raised |-> "ModelUseError", kind |-> "ops", e |-> e]
           ELSE IF it.key \notin all_keys
           THEN [raised |-> "ValueError", kind |-> "remove", e |-> e1]
           ELSE ResetItems(e1, Tail(items), all_keys \ {it.key})

\* run, repeat mode, "reset inputs" (lines 230-250), target by target
RECURSIVE ResetInputs(_, _, _)
ResetInputs(self, formatted, e) ==
  IF formatted = <<>> THEN [raised |-> "None", kind |-> "None", ens |-> e]
  ELSE IF Head(formatted).target \notin DOMAIN self.attrs
  THEN [raised |-> "AttributeError", kind |-> "getattr", ens |-> e]
  ELSE LET obj == self.attrs[Head(formatted).target]
           r == ResetItems(e[obj], Head(formatted).items, DOMAIN e[obj].runner._inputs)
           e1 == [e EXCEPT ![obj] = r.e]
       IN  IF r.raised # "None" THEN [raised |-> r.raised, kind |-> r.kind, ens |-> e1]
           ELSE ResetInputs(self, Tail(formatted), e1)

\* run, repeat mode, "reset monitors" (lines 253-255): val[:] = 0. for every
\* monitor array of every object of _all_objects
RECURSIVE ResetMonitors(_, _)
ResetMonitors(objects, e) ==
  IF objects = <<>> THEN [raised |-> "None", ens |-> e]
  ELSE IF ObjType(Head(objects)) = "object" THEN [raised |-> "AttributeError", ens |-> e]
  ELSE ResetMonitors(Tail(objects),
         [e EXCEPT ![Head(objects)].mon =
            [x |-> [r \in DOMAIN @.x |-> 0], ts |-> [r \in DOMAIN @.ts |-> 0]]])

\* np.arange(start, end, dt)
arange(start, end, dt) == [i \in 1 .. Ceil(end - start, dt) |-> start + (i - 1) * dt]

\* variant: a step function is built for every run, whatever the mode
must_build_Always(self) == TRUE

\* variant: a step function is built only when there is none, whatever the mode
must_build_FirstOnly(self) == ~self.step_func.exists

\* run, line 219: the step function is built unless the mode is 'repeat' and
\* there is one already
must_build(self) == self.mode # "repeat" \/ ~self.step_func.exists

\* Network.run((start, end), inputs) up to the tick loop (lines 201-255): the
\* network and the ensembles after it, the exception raised if any, the path
\* taken and the times of the loop
Network_run(self, e, start, end, inputs, id) ==
  LET ts == arange(start, end, NetDt)
      run_length == Len(ts)
      s1 == [self EXCEPT !.t_start = start, !.t_end = end]
      b == build(s1, e, run_length, inputs, id)
      f == _format_inputs(s1, inputs, run_length)
      r == ResetInputs(s1, f.formatted, e)
      m == ResetMonitors(s1.all_objects, r.ens)
  IN  IF must_build(self)
      THEN IF b.raised # "None"
           THEN [self |-> s1, ens |-> b.ens, raised |-> b.raised,
                 kind |-> IF b.fmt.raised # "None" THEN "format" ELSE "build",
                 path |-> "build", ts |-> ts, fmt |-> b.fmt]
           ELSE [self |-> [s1 EXCEPT !.step_func = b.step_func, !.t_duration = end - start],
                 ens |-> b.ens, raised |-> "None", kind |-> "None",
                 path |-> "build", ts |-> ts, fmt |-> b.fmt]
      ELSE IF self.t_duration # end - start
      THEN [self |-> s1, ens |-> e, raised |-> "ModelUseError", kind |-> "duration",
            path |-> "reuse", ts |-> ts, fmt |-> NoObj]
      ELSE IF f.raised # "None"
      THEN [self |-> s1, ens |-> e, raised |-> f.raised, kind |-> "format",
            path |-> "reuse", ts |-> ts, fmt |-> f]
      ELSE IF r.raised # "None"
      THEN [self |-> s1, ens |-> r.ens, raised |-> r.raised, kind |-> r.kind,
            path |-> "reuse", ts |-> ts, fmt |-> f]
      ELSE IF m.raised # "None"
      THEN [self |-> s1, ens |-> m.ens, raised |-> m.raised, kind |-> "monitor",
            path |-> "reuse", ts |-> ts, fmt |-> f]
      ELSE [self |-> s1, ens |-> m.ens, raised |-> "None", kind |-> "None",
            path |-> "reuse", ts |-> ts, fmt |-> f]

\* report_percent = 0.1, the default of run
report_percent == [num |-> 1, den |-> 10]

\* the values given as inputs: two scalars and an array of two ones
InputVals ==
  [s1 |-> [kind |-> "scalar", shape |-> <<>>, c |-> 1],
   s2 |-> [kind |-> "scalar", shape |-> <<>>, c |-> 2],
   a2 |-> [kind |-> "array", shape |-> <<2>>, c |-> 1]]

\* the inputs argument of a run: none, or one specification for the variable x
\* of the ensemble named "A"
RunInputs ==
  {Tuple(<<>>)}
    \cup {Tuple(<<Tuple(<<Str("A"), Str("x"), InputVals[v]>>)>>) :
            v \in {"s1", "s2", "a2"}}
    \cup {Tuple(<<Tuple(<<Str("A"), Str("x"), InputVals.s1, Str("=")>>)>>)}

\* the duration argument of a run: (start, end) with end - start =
\* MaxDuration - 1 from two different starts, or MaxDuration
RunTimes == {<<0, MaxDuration - 1>>, <<1, MaxDuration>>, <<0, MaxDuration>>}

InitNet ==
  /\ \E mode \in {"once", "repeat"} : net = Network_init(mode)
  /\ run = NoObj
  /\ ens = [o \in Objs |-> NewEnsemble]
  /\ net_hist = [registered |-> <<>>, reg_at_build |-> <<>>, builds |-> 0, calls |-> 0,
                 tick_log |-> <<>>, ticks |-> 0, raised |-> "None", kind |-> "None",
                 steps |-> <<>>, last |-> NoObj, completed |-> FALSE,
                 last_add |-> NoObj, add_failed |-> FALSE, fmt |-> NoObj]
  /\ td = NoObj /\ td_res = NoRes /\ td_hist = NoObj
  /\ ld = NoObj /\ ld_res = NoRes /\ ld_hist = NoObj
  /\ neu = NoObj /\ neu_hist = NoObj
  /\ ir = NoObj /\ ir_run = NoObj /\ ir_hist = NoObj

\* net.add(obj) or net.add(name=obj), between two runs, for <<obj, name>> in adds
Add(adds) ==
  /\ net.exists /\ ~run.exists
  /\ Len(net.all_objects) < MaxObjs
  /\ \E a \in adds :
       LET obj == a[1]
           name == a[2]
           r == _add_obj(net, obj, name)
       IN  /\ net' = r.self
           /\ net_hist' = [net_hist EXCEPT
                             !.registered = IF r.raised = "None" THEN Append(@, obj) ELSE @,
                             !.raised = r.raised, !.kind = "add",
                             !.last_add = [exists |-> TRUE, obj |-> obj, name |-> name,
                                           before |-> net],
                             !.add_failed = @ \/ r.raised # "None"]
  /\ UNCHANGED <<run, ens, delay_vars, neu_vars, int_vars>>

\* any of the objects is added, nameless or under a keyword name
NetAdd == Add(Objs \X KwNames)

\* any of the objects, the second NeuGroup included
NetAddAny == Add(AddObjs \X KwNames)

\* the SynConn is added, nameless, to a network that may have run already
NetAddLate == Add({<<"s1", "None">>})

\* net.build(run_length): the step function is returned to the caller and is
\* not stored in the network
NetBuild ==
  /\ net.exists /\ ~run.exists
  /\ net_hist.calls < MaxRuns
  /\ \E run_length \in 1 .. Ceil(MaxDuration, NetDt) :
       LET b == build(net, ens, run_length, Tuple(<<>>), net_hist.builds + 1)
       IN  /\ ens' = b.ens
           /\ net_hist' = [net_hist EXCEPT
                             !.calls = @ + 1,
                             !.builds = IF b.raised = "None" THEN @ + 1 ELSE @,
                             !.raised = b.raised, !.kind = "build"]
  /\ UNCHANGED <<net, run, delay_vars, neu_vars, int_vars>>

\* net.run((start, end), inputs, report) up to the tick loop, for
\* <<(start, end), inputs, report>> in args
Run(args) ==
  /\ net.exists /\ ~run.exists
  /\ net_hist.calls < MaxRuns
  /\ \E a \in args :
       LET t == a[1]
           inputs == a[2]
           report == a[3]
           r == Network_run(net, ens, t[1], t[2], inputs, net_hist.builds + 1)
           built == r.path = "build" /\ r.raised = "None"
           fails == r.raised # "None" \/ (report /\ Len(r.ts) = 0)
       IN  /\ net' = r.self
           /\ ens' = r.ens
           /\ run' = IF fails THEN NoObj
                     ELSE [exists |-> TRUE, ts |-> r.ts, run_idx |-> 0, report |-> report]
           /\ net_hist' = [net_hist EXCEPT
                             !.calls = @ + 1,
                             !.builds = IF built THEN @ + 1 ELSE @,
                             !.reg_at_build = IF built THEN net_hist.registered ELSE @,
                             !.tick_log = <<>>, !.ticks = 0, !.steps = <<>>,
                             !.raised = IF r.raised = "None" /\ fails THEN "IndexError"
                                        ELSE r.raised,
                             !.kind = r.kind,
                             !.fmt = r.fmt,
                             !.last = [exists |-> TRUE, start |-> t[1], end |-> t[2],
                                       inputs |-> inputs, report |-> report,
                                       path |-> r.path, before |-> net],
                             !.completed = FALSE]
  /\ UNCHANGED <<delay_vars, neu_vars, int_vars>>

\* a run without inputs and without progress report
NetRunPlain == Run(RunTimes \X {Tuple(<<>>)} \X {FALSE})

\* the duration argument of a run that reports progress: one step, or MaxDuration
ReportTimes == {<<0, 1>>, <<0, MaxDuration>>}

\* a run with any of the inputs, or a run without inputs that reports progress
NetRun == Run((RunTimes \X RunInputs \X {FALSE}) \cup (ReportTimes \X {Tuple(<<>>)} \X {TRUE}))

\* inputs that are lists of well-formed specifications: none; one by name with
\* three fields; one by object with an array and an operation; three for two
\* targets, two of them for the same variable of the same target
WellFormedLists ==
  {Tuple(<<>>),
   Tuple(<<Tuple(<<Str("A"), Str("x"), InputVals.s1>>)>>),
   Tuple(<<Tuple(<<Ensemble("n1"), Str("x"), InputVals.a2, Str("=")>>)>>),
   Tuple(<<Tuple(<<Str("A"), Str("x"), InputVals.s1>>),
           Tuple(<<Str("B"), Str("x"), InputVals.s2, Str("-")>>),
           Tuple(<<Str("A"), Str("x"), InputVals.s2, Str("*")>>)>>)}

\* inputs that are one bare specification, the target given by object or by name
BareSpecs ==
  {Tuple(<<Ensemble("n1"), Str("x"), InputVals.s1>>),
   Tuple(<<Str("A"), Str("x"), InputVals.s1>>)}

\* malformed inputs: two fields; a key that is a number; a value that is a
\* string; an unknown operation after a valid specification; a tuple whose
\* first element is a number
MalformedInputs ==
  {Tuple(<<Tuple(<<Str("A"), Str("x")>>)>>),
   Tuple(<<Tuple(<<Str("A"), InputVals.s1, InputVals.s1>>)>>),
   Tuple(<<Tuple(<<Str("A"), Str("x"), Str("v")>>)>>),
   Tuple(<<Tuple(<<Str("A"), Str("x"), InputVals.s1>>),
           Tuple(<<Str("A"), Str("x"), InputVals.s1, Str("^")>>)>>),
   Tuple(<<InputVals.s1, Str("x"), InputVals.s1>>)}

\* inputs whose target may not be in the network: a name that no object has,
\* the SynConn (added late or never), the second NeuGroup (never added)
UnresolvedInputs ==
  {Tuple(<<Tuple(<<Str("Z"), Str("x"), InputVals.s1>>)>>),
   Tuple(<<Tuple(<<Ensemble("s1"), Str("x"), InputVals.s1>>)>>),
   Tuple(<<Tuple(<<Ensemble("n2"), Str("x"), InputVals.s1>>)>>)}

FmtInputs == WellFormedLists \cup BareSpecs \cup MalformedInputs \cup UnresolvedInputs

\* the duration argument of the runs that are given these inputs
FmtTimes == {<<0, MaxDuration - 1>>, <<0, MaxDuration>>}

\* a run with any of these inputs
NetFmtRun == Run(FmtTimes \X FmtInputs \X {FALSE})

\* one iteration of the loop: self._step_func(_t_=ts[run_idx], _i_=run_idx,
\* _dt_=dt); with report, the iterations after the first one end with
\* (run_idx + 1) % report_gap, report_gap = int(run_length * report_percent)
NetTick ==
  /\ run.exists
  /\ run.run_idx < Len(run.ts)
  /\ LET i == run.run_idx
         report_gap == TruncDiv(Len(run.ts) * report_percent.num, report_percent.den)
         fails == run.report /\ i >= 1 /\ report_gap = 0
     IN  /\ ens' = step_func_call(net.step_func, ens, i)
         /\ run' = IF fails THEN NoObj ELSE [run EXCEPT !.run_idx = i + 1]
         /\ net_hist' = [net_hist EXCEPT
                           !.tick_log = net.step_func.lines,
                           !.ticks = @ + 1,
                           !.steps = Append(@, <<run.ts[i + 1], i>>),
                           !.raised = IF fails THEN "ZeroDivisionError" ELSE @,
                           !.kind = IF fails THEN "report" ELSE @]
  /\ UNCHANGED <<net, delay_vars, neu_vars, int_vars>>

\* variant: the monitors get the times at the end of each step, ts + dt
RECURSIVE SetTs_EndOfStep(_, _, _)
SetTs_EndOfStep(objects, e, ts) ==
  IF objects = <<>> THEN [raised |-> "None", ens |-> e]
  ELSE IF ObjType(Head(objects)) = "object" THEN [raised |-> "AttributeError", ens |-> e]
  ELSE SetTs_EndOfStep(Tail(objects),
         [e EXCEPT ![Head(objects)].mon.ts = [r \in DOMAIN ts |-> ts[r] + NetDt]], ts)

\* obj.mon['ts'] = self.ts for the objects of _all_objects (lines 279-280)
RECURSIVE SetTs(_, _, _)
SetTs(objects, e, ts) ==
  IF objects = <<>> THEN [raised |-> "None", ens |-> e]
  ELSE IF ObjType(Head(objects)) = "object" THEN [raised |-> "AttributeError", ens |-> e]
  ELSE SetTs(Tail(objects), [e EXCEPT ![Head(objects)].mon.ts = ts], ts)

\* the loop is over: the monitors get their 'ts' and run returns
NetRunEnd ==
  /\ run.exists
  /\ run.run_idx = Len(run.ts)
  /\ LET m == SetTs(net.all_objects, ens, arange(net.t_start, net.t_end, NetDt))
     IN  /\ ens' = m.ens
         /\ net_hist' = [net_hist EXCEPT !.raised = m.raised,
                                         !.completed = (m.raised = "None")]
  /\ run' = NoObj
  /\ UNCHANGED <<net, delay_vars, neu_vars, int_vars>>

NextNet ==
  \/ NetAdd
  \/ NetBuild
  \/ NetRunPlain
  \/ NetTick
  \/ NetRunEnd

SpecNet == InitNet /\ [][NextNet]_vars

NextAdd == NetAddAny

\* a network that is only given objects
SpecAdd == InitNet /\ [][NextAdd]_vars

\* Network(n1, mode=mode): the NeuGroup is added by the constructor
InitRun ==
  /\ \E mode \in {"once", "repeat"} :
       net = [_add_obj(Network_init(mode), "n1", "None").self EXCEPT !.mode = mode]
  /\ run = NoObj
  /\ ens = [o \in Objs |-> NewEnsemble]
  /\ net_hist = [registered |-> <<"n1">>, reg_at_build |-> <<>>, builds |-> 0, calls |-> 0,
                 tick_log |-> <<>>, ticks |-> 0, raised |-> "None", kind |-> "None",
                 steps |-> <<>>, last |-> NoObj, completed |-> FALSE,
                 last_add |-> NoObj, add_failed |-> FALSE, fmt |-> NoObj]
  /\ td = NoObj /\ td_res = NoRes /\ td_hist = NoObj
  /\ ld = NoObj /\ ld_res = NoRes /\ ld_hist = NoObj
  /\ neu = NoObj /\ neu_hist = NoObj
  /\ ir = NoObj /\ ir_run = NoObj /\ ir_hist = NoObj

NextRun ==
  \/ NetAddLate
  \/ NetRun
  \/ NetTick
  \/ NetRunEnd

\* a network with one NeuGroup that is run repeatedly, with inputs or with
\* progress report, and that may be given a SynConn between two runs
SpecRun == InitRun /\ [][NextRun]_vars

NextFmt ==
  \/ NetAddLate
  \/ NetFmtRun
  \/ NetTick
  \/ NetRunEnd

\* a network with one NeuGroup that is run with inputs of every form, well
\* formed or not, and that may be given a SynConn between two runs
SpecFmt == InitRun /\ [][NextFmt]_vars

-----------------------------------------------------------------------------
(* NeuGroup (npbrain) *)

MaxNum == 2         \* units of a group: geometry is at most MaxNum
MaxTicks == 2       \* steps of a run of the group

PyNone == [kind |-> "None"]

\* a number
Num(c) == [kind |-> "scalar", shape |-> <<>>, c |-> c]

\* a dict, its items (<<key, value>>) in insertion order; a key is a string,
\* kept as the sequence of its characters
Dict(items) == [kind |-> "dict", items |-> items]

\* NeuGroup(create_func, name): the model declares the variables "v" and "vb"
\* and the parameters "g" and "gx"
NeuGroup_init ==
  [exists |-> TRUE,
   called |-> FALSE,
   variables |-> (<<"v">> :> Num(0)) @@ (<<"v", "b">> :> Num(0)),
   parameters |-> (<<"g">> :> Num(1)) @@ (<<"g", "x">> :> Num(1)),
   num |-> 0,
   geometry |-> <<>>,
   state |-> EmptyDict,
   P |-> EmptyDict,
   update_funcs |-> <<>>,
   mon |-> EmptyDict,
   mon_vars |-> PyNone]

\* "num and geometry" (lines 22-37): a number n gives (1, n), a sequence of one
\* or two numbers gives (height, width)
Geometry(geometry) ==
  IF geometry.kind = "scalar"
  THEN [raised |-> "None", geometry |-> <<1, geometry.c>>]
  ELSE IF geometry.kind = "tuple"
  THEN IF Len(geometry.f) = 1
       THEN [raised |-> "None", geometry |-> <<1, geometry.f[1]>>]
       ELSE IF Len(geometry.f) = 2
       THEN [raised |-> "None", geometry |-> <<geometry.f[1], geometry.f[2]>>]
       ELSE [raised |-> "ValueError", geometry |-> <<>>]
  ELSE [raised |-> "ValueError", geometry |-> <<>>]

\* variant: the loop is over the items of the dict
RECURSIVE VarsLoop_Items(_, _, _)
VarsLoop_Items(self, items, variables) ==
  IF items = <<>> THEN [raised |-> "None", variables |-> variables]
  ELSE LET k == Head(items)[1]
           v == Head(items)[2]
       IN  IF k \notin DOMAIN self.variables
           THEN [raised |-> "KeyError", variables |-> variables]
           ELSE VarsLoop_Items(self, Tail(items), [variables EXCEPT ![k] = v])

\* "for k, v in vars_init:" (lines 44-47): the loop is over the keys of the
\* dict, and each key, a string, is unpacked into k and v: a key of two
\* characters gives its characters, any other key raises ValueError
RECURSIVE VarsLoop(_, _, _)
VarsLoop(self, items, variables) ==
  IF items = <<>> THEN [raised |-> "None", variables |-> variables]
  ELSE LET key == Head(items)[1]
           k == <<key[1]>>
           v == Str(key[2])
       IN  IF Len(key) # 2
           THEN [raised |-> "ValueError", variables |-> variables]
           ELSE IF k \notin DOMAIN self.variables
           THEN [raised |-> "KeyError", variables |-> variables]
           ELSE VarsLoop(self, Tail(items), [variables EXCEPT ![k] = v])

\* "for k, v in pars_update:" (lines 68-74): the same unpacking of the keys;
\* the size of a character is 1, and parameters[k] = v
RECURSIVE ParsLoop(_, _)
ParsLoop(items, parameters) ==
  IF items = <<>> THEN [raised |-> "None", parameters |-> parameters]
  ELSE LET key == Head(items)[1]
           k == <<key[1]>>
           v == Str(key[2])
       IN  IF Len(key) # 2
           THEN [raised |-> "ValueError", parameters |-> parameters]
           ELSE ParsLoop(Tail(items),
                         (k :> v) @@ [j \in DOMAIN parameters \ {k} |-> parameters[j]])

\* create_func(**parameters)['step_funcs']: the model has one step function
step_funcs == <<"step">>

\* variant: the monitor update is the first of the update functions
AddMonitor_First(update_funcs, monitors) ==
  IF monitors # PyNone THEN <<"update">> \o update_funcs ELSE update_funcs

\* "monitors" (lines 103-117): with monitors the update function of the
\* monitors is appended to the update functions
AddMonitor(update_funcs, monitors) ==
  IF monitors # PyNone THEN Append(update_funcs, "update") ELSE update_funcs

\* NeuGroup.__call__(geometry, monitors, vars_init, pars_update), without the
\* numba backend: the object after the call and the exception raised, if any
NeuGroup_call(self, geometry, monitors, vars_init, pars_update) ==
  LET g == Geometry(geometry)
      num == g.geometry[1] * g.geometry[2]
      s1 == [self EXCEPT !.num = num, !.geometry = g.geometry]
      vl == VarsLoop(self, vars_init.items, self.variables)
      s2 == [s1 EXCEPT !.state = [k \in DOMAIN vl.variables |->
                                    [u \in 1 .. num |-> vl.variables[k].c]]]
      pl == ParsLoop(pars_update.items, self.parameters)
      s3 == [s2 EXCEPT !.P = pl.parameters, !.parameters = pl.parameters,
                       !.update_funcs = step_funcs]
      s4 == [s3 EXCEPT !.mon = IF monitors = PyNone THEN EmptyDict
                                ELSE [k \in {monitors.f[j] : j \in 1 .. Len(monitors.f)}
                                        |-> <<[u \in 1 .. 1 |-> 0]>>],
                       !.mon_vars = monitors,
                       !.update_funcs = AddMonitor(step_funcs, monitors),
                       !.called = TRUE]
  IN  IF g.raised # "None" THEN [self |-> self, raised |-> g.raised]
      ELSE IF vars_init.kind # "dict" THEN [self |-> s1, raised |-> "AssertionError"]
      ELSE IF vl.raised # "None" THEN [self |-> s1, raised |-> vl.raised]
      ELSE IF \E k \in DOMAIN vl.variables : vl.variables[k].kind # "scalar"
      THEN [self |-> s1, raised |-> "TypeError"]
      ELSE IF pars_update.kind # "dict" THEN [self |-> s2, raised |-> "AssertionError"]
      ELSE IF pl.raised # "None" THEN [self |-> s2, raised |-> pl.raised]
      ELSE [self |-> s4, raised |-> "None"]

\* the step function of the model: v += 1
StepFunc(self) == [self EXCEPT !.state[<<"v">>] = [u \in DOMAIN @ |-> @[u] + 1]]

\* the update function of the monitors (lines 110-112):
\* self.mon[k][i] = self.state[k] for k in self._mon_vars
MonUpdate(self, i) ==
  [self EXCEPT !.mon = [k \in DOMAIN @ |->
                          [r \in DOMAIN @[k] |-> IF r = i + 1 THEN self.state[k] ELSE @[k][r]]]]

\* the update functions are called in their order, each with the step index
RECURSIVE RunFuncs(_, _, _)
RunFuncs(self, funcs, i) ==
  IF funcs = <<>> THEN self
  ELSE RunFuncs(IF Head(funcs) = "update" THEN MonUpdate(self, i) ELSE StepFunc(self),
                Tail(funcs), i)

\* the geometry argument: a number, or a sequence of one, two or three numbers
Geometries ==
  {Num(MaxNum), Tuple(<<MaxNum>>), Tuple(<<1, MaxNum>>), Tuple(<<1, 1, MaxNum>>)}

\* the monitors argument: none, or the variable v
MonitorArgs == {PyNone, Tuple(<<(<<"v">>)>>)}

\* the vars_init argument: none (the default), no variable, one of the
\* variables "v" and "vb", or a variable that is not defined ("zq", "zzz")
VarsInits ==
  {PyNone, Dict(<<>>)}
    \cup {Dict(<<(<<k, Num(2)>>)>>) :
            k \in {<<"v">>, <<"v", "b">>, <<"z", "q">>, <<"z", "z", "z">>}}

\* the pars_update argument: none (the default), no parameter, or one of the
\* parameters "g" and "gx"
ParsUpdates ==
  {PyNone, Dict(<<>>)} \cup {Dict(<<(<<k, Num(2)>>)>>) : k \in {<<"g">>, <<"g", "x">>}}

InitNeu ==
  /\ neu = NeuGroup_init
  /\ neu_hist = [last |-> NoObj, raised |-> "None", built |-> FALSE, run_length |-> 0,
                 i |-> 0, v0 |-> <<>>]
  /\ td = NoObj /\ td_res = NoRes /\ td_hist = NoObj
  /\ ld = NoObj /\ ld_res = NoRes /\ ld_hist = NoObj
  /\ net = NoObj /\ run = NoObj /\ ens = NoObj /\ net_hist = NoObj
  /\ ir = NoObj /\ ir_run = NoObj /\ ir_hist = NoObj

\* group(geometry, monitors, vars_init, pars_update) on a group that was not
\* instantiated yet
NeuCall ==
  /\ neu.exists /\ ~neu.called
  /\ \E geometry \in Geometries, monitors \in MonitorArgs,
        vars_init \in VarsInits, pars_update \in ParsUpdates :
       LET r == NeuGroup_call(neu, geometry, monitors, vars_init, pars_update)
       IN  /\ neu' = r.self
           /\ neu_hist' = [neu_hist EXCEPT
                             !.last = [exists |-> TRUE, geometry |-> geometry,
                                       monitors |-> monitors, vars_init |-> vars_init,
                                       pars_update |-> pars_update, before |-> neu],
                             !.raised = r.raised]
  /\ UNCHANGED <<delay_vars, net_vars, int_vars>>

\* the build of a run of run_length steps: the monitors get run_length rows of
\* zeros
NeuBuild ==
  /\ neu.exists /\ neu.called /\ ~neu_hist.built
  /\ \E run_length \in 1 .. MaxTicks :
       /\ neu' = [neu EXCEPT !.mon = [k \in DOMAIN @ |->
                                        [r \in 1 .. run_length |->
                                           [u \in 1 .. neu.num |-> 0]]]]
       /\ neu_hist' = [neu_hist EXCEPT !.built = TRUE, !.run_length = run_length,
                                       !.i = 0, !.v0 = neu.state[<<"v">>]]
  /\ UNCHANGED <<delay_vars, net_vars, int_vars>>

\* one step of the run: the update functions of the group are called with
\* the step index
NeuTick ==
  /\ neu.exists /\ neu_hist.built /\ neu_hist.i < neu_hist.run_length
  /\ neu' = RunFuncs(neu, neu.update_funcs, neu_hist.i)
  /\ neu_hist' = [neu_hist EXCEPT !.i = @ + 1]
  /\ UNCHANGED <<delay_vars, net_vars, int_vars>>

NextNeu ==
  \/ NeuCall
  \/ NeuBuild
  \/ NeuTick

SpecNeu == InitNeu /\ [][NextNeu]_vars

-----------------------------------------------------------------------------
(* IntegratorRunner *)

MaxCalls == 2         \* run calls per runner
MaxRunDuration == 3   \* the duration of a run is at most MaxRunDuration
MaxDynLen == 2        \* length of a dyn_args sequence

\* a dyn_args sequence of n elements, element j holding j (a ramp input); kind
\* is the array library that holds it
Ramp(n, kind) == [kind |-> kind, v |-> [j \in 0 .. n - 1 |-> j]]

\* len(v) of a dyn_args sequence
SeqLen(a) == Cardinality(DOMAIN a.v)

\* the dyn_args argument: None, an empty dict, one sequence, or two sequences
\* of equal or different lengths
DynArgs ==
  {PyNone, Dict(<<>>)}
    \cup {Dict(<< <<"I", Ramp(n, kind)>> >>) : n \in 1 .. MaxDynLen, kind \in {"jax", "numpy"}}
    \cup {Dict(<< <<"I", Ramp(MaxDynLen, "jax")>>, <<"J", Ramp(n, "jax")>> >>) :
             n \in {MaxDynLen - 1, MaxDynLen}}

\* IntegratorRunner(target, dyn_args=dyn_args, dt=dt): the runner and the
\* exception raised, if any.  The sequences must have one common length; the
\* index _idx exists only when there are dyn_args.
IntegratorRunner_init(dt, dyn_args) ==
  LET items == IF dyn_args = PyNone THEN <<>> ELSE dyn_args.items
      sizes == {SeqLen(items[k][2]) : k \in 1 .. Len(items)}
  IN  IF dyn_args # PyNone /\ Cardinality(sizes) # 1
      THEN [self |-> NoObj, raised |-> "RunningError"]
      ELSE [self |-> [exists |-> TRUE,
                      dt |-> dt,
                      _dyn_args |-> items,
                      _start_t |-> PyNone,
                      dyn_vars |-> IF Len(items) > 0 THEN [_idx |-> 0] ELSE EmptyDict,
                      mon_ts |-> <<>>],
            raised |-> "None"]

\* variant: a run without start_t starts at 0.
start_time_Zero(self, start_t) ==
  IF start_t = PyNone THEN 0 ELSE start_t.c

\* __call__, lines 278-282: the start of the run
start_time(self, start_t) ==
  IF start_t = PyNone
  THEN IF self._start_t = PyNone THEN 0 ELSE self._start_t.c
  ELSE start_t.c

\* __call__(duration, start_t) up to the call of step_func (lines 274-285): the
\* index is set to 0 when there are dyn_args, and the times are computed
IntegratorRunner_call(self, duration, start_t) ==
  LET start == start_time(self, start_t)
      end_t == start + duration
  IN  [self |-> IF Len(self._dyn_args) > 0 THEN [self EXCEPT !.dyn_vars._idx = 0] ELSE self,
       start_t |-> start, end_t |-> end_t, times |-> arange(start, end_t, self.dt)]

\* v[self.idx.value]: an index past the end is clamped by a jax array and
\* raises IndexError on a numpy array
DynItem(a, i) ==
  IF a.kind = "numpy" /\ i >= SeqLen(a)
  THEN [raised |-> "IndexError", value |-> 0]
  ELSE [raised |-> "None", value |-> a.v[GetIndex(i, SeqLen(a))]]

\* _step(t), lines 233-241: the keyword arguments given to the integrator;
\* element _idx of every dyn_args sequence is read, then _idx is incremented
_step(self, t) ==
  LET items == self._dyn_args
      i == IF Len(items) > 0 THEN self.dyn_vars._idx ELSE 0
      read == [k \in 1 .. Len(items) |-> DynItem(items[k][2], i)]
  IN  IF \E k \in 1 .. Len(items) : read[k].raised # "None"
      THEN [self |-> self, raised |-> "IndexError", kwargs |-> NoObj]
      ELSE [self |-> IF Len(items) > 0 THEN [self EXCEPT !.dyn_vars._idx = @ + 1] ELSE self,
            raised |-> "None",
            kwargs |-> [exists |-> TRUE, t |-> t, dt |-> self.dt,
                        dyn |-> [k \in 1 .. Len(items) |-> read[k].value]]]

\* _post(times, returns), line 229: self.mon.ts = times + self.dt
_post(self, times) ==
  [self EXCEPT !.mon_ts = [k \in DOMAIN times |-> times[k] + self.dt]]

\* the duration argument of a run
Durations == -1 .. MaxRunDuration

\* the start_t argument of a run
StartTs == {PyNone, Num(0), Num(5)}

InitInt ==
  /\ \E dt \in Dts, dyn_args \in DynArgs :
       LET r == IntegratorRunner_init(dt, dyn_args)
       IN  /\ ir = r.self
           /\ ir_hist = [calls |-> 0, raised |-> r.raised, steps |-> <<>>, prev |-> NoObj]
  /\ ir_run = NoObj
  /\ td = NoObj /\ td_res = NoRes /\ td_hist = NoObj
  /\ ld = NoObj /\ ld_res = NoRes /\ ld_hist = NoObj
  /\ net = NoObj /\ run = NoObj /\ ens = NoObj /\ net_hist = NoObj
  /\ neu = NoObj /\ neu_hist = NoObj

\* runner.run(duration, start_t) up to the loop over the times
IntCall ==
  /\ ir.exists /\ ~ir_run.exists
  /\ ir_hist.calls < MaxCalls
  /\ \E duration \in Durations, start_t \in StartTs :
       LET r == IntegratorRunner_call(ir, duration, start_t)
       IN  /\ ir' = r.self
           /\ ir_run' = [exists |-> TRUE, duration |-> duration, start_arg |-> start_t,
                         start_t |-> r.start_t, end_t |-> r.end_t, times |-> r.times,
                         i |-> 0]
           /\ ir_hist' = [ir_hist EXCEPT !.calls = @ + 1, !.raised = "None", !.steps = <<>>]
  /\ UNCHANGED <<delay_vars, net_vars, neu_vars>>

\* one iteration of the loop of step_func (lines 213-220): self._step(times[i])
IntStep ==
  /\ ir_run.exists
  /\ ir_run.i < Len(ir_run.times)
  /\ LET r == _step(ir, ir_run.times[ir_run.i + 1])
     IN  /\ ir' = r.self
         /\ ir_run' = IF r.raised # "None" THEN NoObj ELSE [ir_run EXCEPT !.i = @ + 1]
         /\ ir_hist' = [ir_hist EXCEPT
                          !.raised = r.raised,
                          !.steps = IF r.raised = "None" THEN Append(@, r.kwargs) ELSE @]
  /\ UNCHANGED <<delay_vars, net_vars, neu_vars>>

\* the loop is over (lines 298-303): _post, then self._start_t = end_t
IntEnd ==
  /\ ir_run.exists
  /\ ir_run.i = Len(ir_run.times)
  /\ ir' = [_post(ir, ir_run.times) EXCEPT !._start_t = Num(ir_run.end_t)]
  /\ ir_hist' = [ir_hist EXCEPT
                   !.prev = [exists |-> TRUE, start_arg |-> ir_run.start_arg,
                             start_t |-> ir_run.start_t,
                             duration |-> ir_run.duration, times |-> ir_run.times,
                             steps |-> Len(ir_hist.steps)]]
  /\ ir_run' = NoObj
  /\ UNCHANGED <<delay_vars, net_vars, neu_vars>>

NextInt ==
  \/ IntCall
  \/ IntStep
  \/ IntEnd

\* a runner that is run repeatedly, with or without start_t
SpecInt == InitInt /\ [][NextInt]_vars

-----------------------------------------------------------------------------
(* Properties of the Network *)

\* C1: execution order equals registration order: in every tick the
\* contributions that run are exactly those of the objects registered (by a
\* successful add) when the step function was built, each once, in the order
\* of registration.
C1_ExecutionOrderIsRegistrationOrder ==
  (net.exists /\ net_hist.ticks > 0) => net_hist.tick_log = net_hist.reg_at_build

\* a step of run up to the tick loop (the run call itself)
RunCallStep == net.exists /\ net_hist'.calls = net_hist.calls + 1

\* C15: repeat mode: the step function is built by the first run and by no
\* later one: once there is a step function it stays the same function, and
\* t_duration stays the duration of the run that built it; a later run whose
\* duration end - start differs fails with the duration-mismatch ModelUseError
\* before any tick, and a later run that starts its loop has that duration and
\* did not build.
C15_RepeatBuildsOnce ==
  /\ []((net.exists /\ net.mode = "repeat" /\ net_hist.calls >= 1)
          => net.step_func.exists /\ net.step_func.id = 1 /\ net_hist.builds = 1)
  /\ [][(net.exists /\ net.mode = "repeat" /\ net.step_func.exists)
          => /\ net'.step_func = net.step_func
             /\ net'.t_duration = net.t_duration
             /\ RunCallStep
                  => LET l == net_hist'.last
                     IN  IF l.end - l.start # net.t_duration
                         THEN /\ net_hist'.raised = "ModelUseError"
                              /\ net_hist'.kind = "duration"
                              /\ ~run'.exists /\ net_hist'.ticks = 0 /\ ens' = ens
                         ELSE l.path = "reuse"]_vars

\* a second run in repeat mode, from another start with the same duration, has
\* reused the step function and completed its loop
C15_Witness ==
  /\ net.exists /\ net.mode = "repeat"
  /\ net_hist.calls >= 2
  /\ net_hist.last.path = "reuse" /\ net_hist.last.start = 1
  /\ net.t_duration = net_hist.last.end - net_hist.last.start
  /\ net_hist.completed /\ net_hist.ticks >= 2
  /\ net.step_func.id = 1

\* C16: once mode: every run call builds a fresh step function for the objects
\* and the run length of that call, whatever the earlier runs were: one build
\* per run, made before the first tick and never during the tick loop.
C16_OnceBuildsEveryRun ==
  [][(net.exists /\ net.mode = "once")
       => /\ RunCallStep
               => /\ net_hist'.last.path = "build"
                  /\ net_hist'.builds = net_hist.builds + 1
                  /\ net'.step_func.exists
                  /\ net'.step_func.id = net_hist'.builds
                  /\ net'.step_func # net.step_func
                  /\ net'.step_func.lines = net'.all_objects
                  /\ run'.exists => /\ net'.step_func.mon_length = Len(run'.ts)
                                     /\ run'.run_idx = 0 /\ net_hist'.ticks = 0
          /\ run.exists => /\ net'.step_func = net.step_func
                            /\ net_hist'.builds = net_hist.builds]_vars

\* the second run of a network in once mode, with another duration than the
\* first, is in its loop with the second step function
C16_Witness ==
  /\ net.exists /\ net.mode = "once"
  /\ net_hist.calls >= 2
  /\ net.step_func.id = 2
  /\ run.exists /\ net_hist.ticks >= 1
  /\ net_hist.last.before.t_duration # net.t_duration

\* a specification (name, key, value[, operation]) of a list of inputs, read
\* as target, key, value and operation
SpecOf(inp) ==
  [target |-> inp.f[1].v, key |-> inp.f[2].v, val |-> inp.f[3],
   ops |-> IF Len(inp.f) = 4 THEN inp.f[4].v ELSE "+"]

\* the specifications of the inputs of the last run call
LastInputs(hist) == [k \in 1 .. Len(hist.last.inputs.f) |-> SpecOf(hist.last.inputs.f[k])]

\* the inputs that the runner of the target of inp keeps from the build
StoredInputs(inp) == ens[net.attrs[inp.target]].runner._inputs

\* every monitor array of every object of the network is all zeros
MonitorsZeroed(e) ==
  \A k \in 1 .. Len(net.all_objects) :
    LET mon == e[net.all_objects[k]].mon
    IN  /\ \A r \in DOMAIN mon.x : mon.x[r] = 0
        /\ \A r \in DOMAIN mon.ts : mon.ts[r] = 0

\* C17: repeat mode, a second or later run with the duration of the build: a
\* supplied input (for a variable that had an input at the build) whose shape
\* or operation differs from the one at the build makes the run fail with the
\* input-shape or input-operation ModelUseError and no tick; when all supplied
\* inputs match, each new value replaces the runner's value and every monitor
\* array of every object is zero before the first tick.  After such a run has
\* completed, the monitor rows of the ensemble follow from the new input alone.
C17_RepeatReuseInputs ==
  /\ [][(net.exists /\ net.mode = "repeat" /\ net.step_func.exists /\ RunCallStep
           /\ net_hist'.last.end - net_hist'.last.start = net.t_duration
           /\ \A k \in 1 .. Len(LastInputs(net_hist')) :
                 LastInputs(net_hist')[k].key \in DOMAIN StoredInputs(LastInputs(net_hist')[k]))
          => LET inputs == LastInputs(net_hist')
                 ShapeOk(inp) == StoredInputs(inp)[inp.key].val.shape = inp.val.shape
                 OpsOk(inp) == StoredInputs(inp)[inp.key].ops = inp.ops
             IN  IF \A k \in 1 .. Len(inputs) : ShapeOk(inputs[k]) /\ OpsOk(inputs[k])
                 THEN /\ net_hist'.raised = "None"
                      /\ run'.exists /\ run'.run_idx = 0 /\ net_hist'.ticks = 0
                      /\ \A k \in 1 .. Len(inputs) :
                            ens'[net.attrs[inputs[k].target]].runner.inp[inputs[k].key]
                              = inputs[k].val
                      /\ MonitorsZeroed(ens')
                 ELSE /\ net_hist'.raised = "ModelUseError"
                      /\ net_hist'.kind \in {"shape", "ops"}
                      /\ (\E k \in 1 .. Len(inputs) : ~ShapeOk(inputs[k]))
                           \/ net_hist'.kind = "ops"
                      /\ ~run'.exists /\ net_hist'.ticks = 0]_vars
  /\ []((net.exists /\ net.mode = "repeat" /\ net_hist.completed
           /\ net_hist.last.path = "reuse" /\ LastInputs(net_hist) # <<>>)
          => LET inp == LastInputs(net_hist)[1]
                 mon == ens[net.attrs[inp.target]].mon
             IN  /\ Len(mon.x) = net_hist.ticks
                 /\ \A r \in 2 .. Len(mon.x) :
                       mon.x[r] = ApplyOp(inp.ops, mon.x[r - 1], inp.val.c))

\* a completed second run in repeat mode whose input has another value than the
\* input of the build
C17_Witness ==
  /\ net.exists /\ net.mode = "repeat" /\ net_hist.completed
  /\ net_hist.last.path = "reuse" /\ LastInputs(net_hist) # <<>>
  /\ LET inp == LastInputs(net_hist)[1]
         e == ens[net.attrs[inp.target]]
     IN  /\ e.runner._inputs[inp.key].val # inp.val
         /\ e.runner.inp[inp.key] = inp.val
         /\ Len(e.mon.x) >= 2
         /\ e.mon.x[2] = e.mon.x[1] + inp.val.c

\* the calls of the step function that the run (start, end) is to make:
\* (time, step_index) = (start + i*dt, i) for i = 0 .. run_length - 1, with
\* run_length = ceil((end - start) / dt)
ExpectedSteps(start, end) ==
  [k \in 1 .. Ceil(end - start, NetDt) |-> <<start + (k - 1) * NetDt, k - 1>>]

\* the last run call passed its build or its checks, and its loop is over
LoopOver ==
  /\ net.exists /\ net_hist.last.exists /\ ~run.exists
  /\ net_hist.kind \in {"None", "report"}

\* C18: run calls the step function exactly once per timestamp, with
\* step_index 0, 1, ..., run_length - 1 and time = start + step_index*dt in
\* increasing order: during the loop the calls made are a prefix of that
\* sequence, and when the loop is over they are the whole sequence.
C18_OneStepPerTimestamp ==
  /\ (net.exists /\ run.exists)
       => net_hist.steps = SubSeq(ExpectedSteps(net_hist.last.start, net_hist.last.end),
                                  1, run.run_idx)
  /\ LoopOver => net_hist.steps = ExpectedSteps(net_hist.last.start, net_hist.last.end)

\* C19: progress reporting is observational: a run with report=True that passed
\* its build or its checks ends as the run with report=False does, without an
\* exception, after the same calls of the step function and with the 'ts' of
\* every monitor set.
C19_ReportIsObservational ==
  (LoopOver /\ net_hist.last.report)
    => /\ net_hist.raised = "None"
       /\ net_hist.completed
       /\ Len(net_hist.steps) = Ceil(net_hist.last.end - net_hist.last.start, NetDt)
       /\ \A k \in 1 .. Len(net.all_objects) :
             ens[net.all_objects[k]].mon.ts = arange(net.t_start, net.t_end, NetDt)

\* C20: when a run has completed its loop and returns, the monitor of every
\* object of the network has a 'ts' entry that is the sequence of the times
\* passed to the step function during that run, in that order.
C20_MonitorTs ==
  [][(net.exists /\ run.exists /\ ~run'.exists /\ net_hist'.completed)
       => /\ Len(net_hist.steps) = Len(run.ts)
          /\ \A k \in 1 .. Len(net.all_objects) :
                ens'[net.all_objects[k]].mon.ts
                  = [r \in 1 .. Len(net_hist.steps) |-> net_hist.steps[r][1]]]_vars

\* a completed run from start 1 over several steps of a network with two
\* objects, the second one added after the step function was built
C20_Witness ==
  /\ net.exists /\ net_hist.completed /\ ~run.exists
  /\ net.mode = "repeat" /\ net_hist.last.path = "reuse"
  /\ net_hist.last.start = 1
  /\ Len(net_hist.steps) >= 2
  /\ Len(net.all_objects) = 2 /\ Len(net.step_func.lines) = 1
  /\ \A k \in 1 .. 2 : Len(ens[net.all_objects[k]].mon.ts) = Len(net_hist.steps)

\* a step that is one _add_obj call
AddStep == net.exists /\ Len(net'.all_objects) = Len(net.all_objects) + 1

\* the name a NeuGroup or SynConn is registered under: the keyword name, or
\* else the name of the object
RegName(a) == IF a.name = "None" THEN ObjName(a.obj) ELSE a.name

\* C21: add of a NeuGroup or SynConn fails with the duplicate-name KeyError
\* whenever the name it would be registered under (the keyword name, or else
\* the object's own name) is already a key of the registry, and then the
\* registry and the attributes are left as they were; when the name is not
\* registered yet the add succeeds and the registry maps the name to the object.
C21_DuplicateNameError ==
  [][(AddStep /\ ObjType(net_hist'.last_add.obj) \in {"NeuGroup", "SynConn"})
       => LET a == net_hist'.last_add
          IN  IF RegName(a) \in DOMAIN net.objsets
              THEN /\ net_hist'.raised = "KeyError"
                   /\ net'.objsets = net.objsets
                   /\ net'.attrs = net.attrs
              ELSE /\ net_hist'.raised = "None"
                   /\ DOMAIN net'.objsets = DOMAIN net.objsets \cup {RegName(a)}
                   /\ net'.objsets[RegName(a)] = a.obj]_vars

\* the second NeuGroup named "A" was added without keyword name to a network
\* that has the first one registered as "A", and the add raised KeyError
C21_Witness ==
  /\ net.exists /\ net_hist.last_add.exists
  /\ net_hist.last_add.obj = "n2" /\ net_hist.last_add.name = "None"
  /\ "A" \in DOMAIN net_hist.last_add.before.objsets
  /\ net_hist.last_add.before.objsets["A"] = "n1"
  /\ net_hist.raised = "KeyError"
  /\ net.objsets["A"] = "n1"

\* C22: name uniqueness: after any sequence of successful add calls, no two
\* entries of the execution list have the same name, and the name of every
\* entry, looked up on the network, gives that entry.
C22_NameUniqueness ==
  (net.exists /\ ~net_hist.add_failed)
    => /\ \A i, j \in 1 .. Len(net.all_objects) :
             i # j => ObjName(net.all_objects[i]) # ObjName(net.all_objects[j])
       /\ \A i \in 1 .. Len(net.all_objects) :
             net.attrs[ObjName(net.all_objects[i])] = net.all_objects[i]

\* a specification that is malformed: not 3 or 4 fields, a key that is not a
\* string, a value that is neither a number nor an array, or a fourth field
\* that is not a recognized operation
MalformedSpec(inp) ==
  \/ inp.kind # "tuple"
  \/ Len(inp.f) \notin {3, 4}
  \/ inp.f[2].kind # "str"
  \/ inp.f[3].kind \notin {"scalar", "array"}
  \/ Len(inp.f) = 4 /\ ~(inp.f[4].kind = "str" /\ inp.f[4].v \in INPUT_OPERATIONS)

\* the inputs are one bare specification: their first element is a target
IsBare(inputs) == Len(inputs.f) > 0 /\ inputs.f[1].kind \in {"str", "BrainEnsemble"}

\* the inputs are a list of specifications
IsList(inputs) == \A k \in 1 .. Len(inputs.f) : inputs.f[k].kind = "tuple"

\* inputs with a malformed specification, or of unknown structure
Malformed(inputs) ==
  IF IsBare(inputs) THEN MalformedSpec(inputs)
  ELSE IF IsList(inputs) THEN \E k \in 1 .. Len(inputs.f) : MalformedSpec(inputs.f[k])
  ELSE TRUE

\* run_length of the last run call
LastRunLength(hist) == Ceil(hist.last.end - hist.last.start, NetDt)

\* C23: input formatting fails fast: a run whose inputs hold a malformed
\* specification (wrong field count, key that is not a string, value that is
\* not numeric, unrecognized operation, unknown structure) raises in
\* _format_inputs: no object was asked to build, no input value was given to
\* any object, the step function is the one of before, and no tick runs.  (In
\* repeat mode a run of another duration than the build fails even earlier,
\* with the duration error, and the formatter is not reached.)
C23_FormatFailsFast ==
  [][(RunCallStep /\ Malformed(net_hist'.last.inputs))
       => /\ net_hist'.raised # "None"
          /\ IF net_hist'.last.path = "reuse"
                  /\ net_hist'.last.end - net_hist'.last.start # net.t_duration
             THEN net_hist'.kind = "duration" /\ net_hist'.fmt = NoObj
             ELSE /\ net_hist'.kind = "format"
                  /\ net_hist'.fmt # NoObj /\ net_hist'.fmt.raised = net_hist'.raised
          /\ ens' = ens
          /\ net'.step_func = net.step_func
          /\ ~run'.exists /\ net_hist'.ticks = 0]_vars

\* a first run (no object built yet) and a later run in repeat mode were given
\* a list whose second specification names an unknown operation: the last call
\* raised in the formatter and left the ensembles as the earlier run left them
C23_Witness ==
  /\ net.exists /\ net_hist.last.exists /\ net_hist.calls >= 2
  /\ net.mode = "repeat" /\ net_hist.last.path = "reuse"
  /\ Malformed(net_hist.last.inputs) /\ Len(net_hist.last.inputs.f) = 2
  /\ net_hist.kind = "format" /\ net_hist.fmt.why = "operation"
  /\ ~run.exists /\ net_hist.ticks = 0
  /\ Len(ens["n1"].mon.x) > 0 /\ ens["n1"].ST # 0

\* C24: a single bare specification (target, key, value), the target given by
\* the name of a registered object or by a registered object, is formatted as
\* the one-element list that holds it.
C24_BareSpecAccepted ==
  (net.exists /\ net_hist.last.exists /\ net_hist.fmt # NoObj
     /\ IsBare(net_hist.last.inputs) /\ ~MalformedSpec(net_hist.last.inputs))
    => LET inp == net_hist.last.inputs
       IN  /\ net_hist.fmt.raised = "None"
           /\ net_hist.fmt = _format_inputs(net_hist.last.before, Tuple(<<inp>>),
                                            LastRunLength(net_hist))
           /\ Len(net_hist.fmt.formatted) = 1
           /\ Len(net_hist.fmt.formatted[1].items) = 1
           /\ net_hist.fmt.formatted[1].items[1].key = inp.f[2].v
           /\ net_hist.fmt.formatted[1].items[1].val = inp.f[3]

\* the target of a specification is an object of the network: a name that an
\* object was registered under or has, or an object that was added
Resolves(self, t) ==
  \/ t.kind = "str" /\ t.v \in DOMAIN self.attrs
  \/ t.kind = "BrainEnsemble" /\ \E i \in 1 .. Len(self.all_objects) : self.all_objects[i] = t.v

\* C25: a list of well-formed specifications one of whose targets is not an
\* object of this network (a name that names no object, an object that was
\* never added) fails in the formatter with a target error.
C25_UnresolvedTargetFails ==
  (net.exists /\ net_hist.last.exists /\ net_hist.fmt # NoObj
     /\ IsList(net_hist.last.inputs) /\ ~Malformed(net_hist.last.inputs)
     /\ \E k \in 1 .. Len(net_hist.last.inputs.f) :
           ~Resolves(net_hist.last.before, net_hist.last.inputs.f[k].f[1]))
    => /\ net_hist.fmt.raised # "None"
       /\ net_hist.fmt.why = "target"
       /\ net_hist.raised = net_hist.fmt.raised

\* the name of the object that a target resolves to
TargetName(self, t) == IF t.kind = "str" THEN ObjName(self.attrs[t.v]) ELSE ObjName(t.v)

\* the (key, value, operation, kind) tuple that a specification stands for
ItemOf(inp, run_length) ==
  [key |-> inp.f[2].v, val |-> inp.f[3],
   ops |-> IF Len(inp.f) = 4 THEN inp.f[4].v ELSE "+",
   data_type |-> IF inp.f[3].kind = "array" /\ inp.f[3].shape[1] = run_length
                 THEN "iter" ELSE "fix"]

\* every specification of the list has three or four fields
FieldCountsOk(inputs) ==
  IsList(inputs) /\ \A k \in 1 .. Len(inputs.f) : Len(inputs.f[k].f) \in {3, 4}

\* C26: input operation: for a list of specifications of 3 or 4 fields, when
\* some 4-field specification names an operation that is not recognized the
\* call fails with the invalid-operation ModelUseError, wherever that
\* specification stands in the list, with no tick and the ensembles untouched;
\* otherwise, when the formatting succeeds, a 3-field specification is
\* formatted with "+" and a 4-field specification with its own operation.
C26_InputOperation ==
  [][(RunCallStep /\ net_hist'.fmt # NoObj /\ FieldCountsOk(net_hist'.last.inputs))
       => LET inputs == net_hist'.last.inputs.f
              fmt == net_hist'.fmt
              OpOk(inp) == Len(inp.f) = 3
                             \/ (inp.f[4].kind = "str" /\ inp.f[4].v \in INPUT_OPERATIONS)
          IN  IF \E k \in 1 .. Len(inputs) : ~OpOk(inputs[k])
              THEN /\ fmt.raised = "ModelUseError" /\ fmt.why = "operation"
                   /\ net_hist'.raised = "ModelUseError"
                   /\ ~run'.exists /\ net_hist'.ticks = 0 /\ ens' = ens
              ELSE fmt.raised = "None"
                     => \A k \in 1 .. Len(inputs) :
                          \E i \in 1 .. Len(fmt.formatted) :
                            /\ fmt.formatted[i].target = TargetName(net, inputs[k].f[1])
                            /\ \E j \in 1 .. Len(fmt.formatted[i].items) :
                                  LET it == fmt.formatted[i].items[j]
                                  IN  /\ it.key = inputs[k].f[2].v
                                      /\ it.val = inputs[k].f[3]
                                      /\ it.ops = IF Len(inputs[k].f) = 3 THEN "+"
                                                  ELSE inputs[k].f[4].v]_vars

\* after a run whose 3-field and 4-field specifications were formatted with
\* "+", "-" and "*", a run was given a valid 3-field specification followed by
\* a specification with an unknown operation, and failed before any tick
C26_Witness ==
  /\ net.exists /\ net_hist.last.exists /\ net_hist.fmt # NoObj
  /\ FieldCountsOk(net_hist.last.inputs)
  /\ net_hist.fmt.why = "operation"
  /\ Len(net_hist.last.inputs.f) = 2
  /\ Len(net_hist.last.inputs.f[1].f) = 3
  /\ net_hist.last.inputs.f[2].f[4].v \notin INPUT_OPERATIONS
  /\ ~run.exists /\ net_hist.ticks = 0
  /\ net_hist.calls >= 2
  /\ "x" \in DOMAIN ens["s1"].runner._inputs
  /\ ens["s1"].runner._inputs["x"].ops = "-"

\* the specifications of the list whose target has the given name, in order
RECURSIVE ItemsFor(_, _, _, _)
ItemsFor(self, inputs, name, run_length) ==
  IF inputs = <<>> THEN <<>>
  ELSE IF TargetName(self, Head(inputs).f[1]) = name
  THEN <<ItemOf(Head(inputs), run_length)>> \o ItemsFor(self, Tail(inputs), name, run_length)
  ELSE ItemsFor(self, Tail(inputs), name, run_length)

\* C27: the formatted input keeps every specification and the order: for
\* every target, the list under that target's name holds one (key, value,
\* operation, kind) tuple per specification given for that target, in the
\* order given, several specifications for one key of one target included;
\* and there is one list per target named.
C27_FormattedKeepsOrder ==
  (net.exists /\ net_hist.last.exists /\ net_hist.fmt # NoObj
     /\ net_hist.fmt.raised = "None" /\ IsList(net_hist.last.inputs))
    => LET inputs == net_hist.last.inputs.f
           self == net_hist.last.before
           fmt == net_hist.fmt.formatted
           L == LastRunLength(net_hist)
       IN  /\ {fmt[i].target : i \in 1 .. Len(fmt)}
                = {TargetName(self, inputs[k].f[1]) : k \in 1 .. Len(inputs)}
           /\ \A i, j \in 1 .. Len(fmt) : fmt[i].target = fmt[j].target => i = j
           /\ \A i \in 1 .. Len(fmt) :
                 fmt[i].items = ItemsFor(self, inputs, fmt[i].target, L)

\* three specifications were formatted: the first and the third, both for
\* variable x of "A", are the list of "A" in that order, the second is the
\* list of "B"
C27_Witness ==
  /\ net.exists /\ net_hist.last.exists /\ net_hist.fmt # NoObj
  /\ net_hist.fmt.raised = "None"
  /\ Len(net_hist.last.inputs.f) = 3
  /\ Len(net_hist.fmt.formatted) = 2
  /\ net_hist.fmt.formatted[1].target = "A"
  /\ Len(net_hist.fmt.formatted[1].items) = 2
  /\ net_hist.fmt.formatted[1].items[1].key = net_hist.fmt.formatted[1].items[2].key
  /\ net_hist.fmt.formatted[1].items[1].val = InputVals.s1
  /\ net_hist.fmt.formatted[1].items[2].val = InputVals.s2
  /\ net_hist.fmt.formatted[2].target = "B"

\* C31: the network is Unbuilt (it holds no step function) until its first
\* successful build or run call and Built (it holds one) afterwards, so that
\* in repeat mode a run that follows an explicit build finds the step function
\* of that build and reuses it.
C31_BuiltAfterBuild ==
  net.exists => (net.step_func.exists <=> net_hist.builds > 0)

\* C32: a failed add leaves the network unchanged: the execution list holds
\* exactly the objects whose add succeeded, in that order, the registry holds
\* only such objects, and every contribution that a tick runs is the
\* contribution of such an object.
C32_FailedAddLeavesUnchanged ==
  net.exists
    => LET added == {net_hist.registered[k] : k \in 1 .. Len(net_hist.registered)}
       IN  /\ net.all_objects = net_hist.registered
           /\ \A nm \in DOMAIN net.objsets : net.objsets[nm] \in added
           /\ \A k \in 1 .. Len(net_hist.tick_log) : net_hist.tick_log[k] \in added

\* a run call in repeat mode that finds a step function
ReuseCallStep ==
  net.exists /\ net.mode = "repeat" /\ net.step_func.exists /\ RunCallStep

\* C33: a run call in repeat mode that fails validation (duration mismatch,
\* input shape mismatch, operation mismatch or missing input) leaves the
\* network and the ensembles exactly as they were before the call: stored
\* input values, monitors, t_start, t_end and t_duration.
C33_FailedRunLeavesUnchanged ==
  [][(ReuseCallStep /\ net_hist'.raised = "ModelUseError"
        /\ net_hist'.kind \in {"duration", "shape", "ops", "not provided"})
       => net' = net /\ ens' = ens]_vars

\* C34: repeat mode, a run call with the duration of the build: when some
\* input (target, key) that an object of the network was built with is not
\* among the inputs of the call, the call fails and no tick executes.
C34_OmittedInputFails ==
  [][(ReuseCallStep
        /\ net_hist'.last.end - net_hist'.last.start = net.t_duration
        /\ \E k \in 1 .. Len(net.all_objects) :
              \E key \in DOMAIN ens[net.all_objects[k]].runner._inputs :
                 \A j \in 1 .. Len(LastInputs(net_hist')) :
                    ~(/\ LastInputs(net_hist')[j].target = ObjName(net.all_objects[k])
                      /\ LastInputs(net_hist')[j].key = key))
       => /\ net_hist'.raised # "None"
          /\ ~run'.exists /\ net_hist'.ticks = 0]_vars

-----------------------------------------------------------------------------
(* Properties of the NeuGroup *)

\* C28: monitor rows are recorded after the update of the same tick: after i
\* steps of a run of a group whose variable v is monitored and grows by 1 per
\* step, row r of the monitor of v (r = 1 .. i) holds the value of v after
\* the update of step r, that is the value at the start of the run plus r,
\* for every unit; the rows of the steps to come are still zero.
C28_MonitorAfterUpdate ==
  (neu.exists /\ neu_hist.built /\ neu.mon_vars # PyNone)
    => /\ Len(neu.mon[<<"v">>]) = neu_hist.run_length
       /\ \A r \in 1 .. neu_hist.run_length :
             neu.mon[<<"v">>][r]
               = [u \in 1 .. neu.num |-> IF r <= neu_hist.i THEN neu_hist.v0[u] + r ELSE 0]

\* a run of MaxTicks steps of a group with the monitor of v is over: the rows
\* are 1, 2, ... for every unit
C28_Witness ==
  /\ neu.exists /\ neu_hist.built /\ neu.mon_vars # PyNone
  /\ neu_hist.run_length = MaxTicks /\ neu_hist.i = MaxTicks
  /\ neu.num = MaxNum
  /\ \A r \in 1 .. MaxTicks : \A u \in 1 .. MaxNum : neu.mon[<<"v">>][r][u] = r
  /\ neu.update_funcs = <<"step", "update">>

\* C29: overriding a variable or a parameter updates it: after
\* group(n, vars_init={k: val}, pars_update={}) with k a defined variable,
\* state[k] is val for every unit; with k not a defined variable the call
\* raises KeyError; after group(n, vars_init={}, pars_update={k: val}) the
\* parameter k is val.
C29_OverrideUpdates ==
  (neu.exists /\ neu_hist.last.exists /\ ~neu_hist.built
     /\ neu_hist.last.geometry = Num(MaxNum))
    => LET l == neu_hist.last
           One(d) == d.kind = "dict" /\ Len(d.items) = 1
           Empty(d) == d.kind = "dict" /\ Len(d.items) = 0
       IN  /\ (One(l.vars_init) /\ Empty(l.pars_update))
                => LET k == l.vars_init.items[1][1]
                       val == l.vars_init.items[1][2]
                   IN  IF k \in DOMAIN l.before.variables
                       THEN /\ neu_hist.raised = "None"
                            /\ neu.state[k] = [u \in 1 .. MaxNum |-> val.c]
                       ELSE neu_hist.raised = "KeyError"
           /\ (Empty(l.vars_init) /\ One(l.pars_update))
                => LET k == l.pars_update.items[1][1]
                       val == l.pars_update.items[1][2]
                   IN  /\ neu_hist.raised = "None"
                       /\ neu.P[k] = val

-----------------------------------------------------------------------------
(* Properties of the IntegratorRunner *)

\* a step that is a run call up to its loop
IntCallStep == ir.exists /\ ir_hist'.calls = ir_hist.calls + 1

\* C38: time continuity: a run call without start_t starts at 0 when no run
\* has returned yet and otherwise at the end (start plus duration) of the run
\* that returned last; a call with start_t starts there.  The times of the
\* call begin at its start, advance by dt and stay before its end, the last
\* one at most dt before it, so the times of a run and of the run continuing
\* it neither overlap nor leave a gap.
C38_TimeContinuity ==
  [][IntCallStep
       => LET c == ir_run'
              p == ir_hist.prev
              start == IF c.start_arg # PyNone THEN c.start_arg.c
                       ELSE IF p.exists THEN p.start_t + p.duration
                       ELSE 0
              n == Len(c.times)
          IN  /\ c.start_t = start
              /\ c.end_t = start + c.duration
              /\ c.duration > 0 => n > 0
              /\ n > 0 => /\ c.times[1] = start
                          /\ c.times[n] < c.end_t
                          /\ c.end_t - c.times[n] <= ir.dt
              /\ \A k \in 2 .. n : c.times[k] = c.times[k - 1] + ir.dt
              /\ (p.exists /\ c.start_arg = PyNone)
                   => \A k \in 1 .. Len(p.times) : p.times[k] < start]_vars

\* a run given start_t = 5 and a duration that is not a multiple of dt has
\* returned, and a second run without start_t is in its loop, its first time
\* being the end of the first run
C38_Witness ==
  /\ ir.exists /\ ir_run.exists /\ ir_hist.calls = 2
  /\ ir_hist.prev.exists /\ ir_hist.prev.start_arg = Num(5)
  /\ ir_hist.prev.duration % ir.dt # 0
  /\ ir_run.start_arg = PyNone
  /\ Len(ir_run.times) > 0 /\ Len(ir_hist.prev.times) > 0
  /\ ir_run.times[1] = 5 + ir_hist.prev.duration
  /\ ir_run.i > 0

\* C39: dyn_args indexing: step i of every run (i = 0, 1, ...) is given element
\* i of every dyn_args sequence, and that element exists: i is smaller than the
\* length of the sequences, and no step fails on the index.
C39_DynArgsIndex ==
  ir.exists
    => /\ ir_hist.raised # "IndexError"
       /\ \A n \in 1 .. Len(ir_hist.steps) :
             \A k \in 1 .. Len(ir._dyn_args) :
                /\ n - 1 < SeqLen(ir._dyn_args[k][2])
                /\ ir_hist.steps[n].dyn[k] = ir._dyn_args[k][2].v[n - 1]

-----------------------------------------------------------------------------
(* Properties of the delay buffers *)

\* number of updates since construction or the last reset
NumUpdates(hist) == Len(hist.w) - 1

\* the most recently written sample (the construction sample before any update)
LastWritten(hist) == hist.w[Len(hist.w)]

\* elapsed = delay_length - (current_time - query_time) of the last read
Elapsed == td.delay_len - (td.current_time - td_res.time)

\* the last TimeDelay read was accepted with checking enabled and served from the ring
AcceptedRingRead ==
  /\ td.exists
  /\ td_res.status = "ok"
  /\ td_res.checking
  /\ td_res.from = "ring"

\* the query time of the last read is not later than current_time
NotAfterCurrentTime == td_res.time <= td.current_time

\* C2: linear mode, exact case: an accepted read whose elapsed time is an exact
\* multiple of dt returns the ring slot at (write_index + elapsed/dt) mod capacity.
\* (Stated for query times up to current_time, where it already fails.)
C2_LinearExactSlot ==
  (AcceptedRingRead /\ NotAfterCurrentTime
     /\ td.interp_method = _INTERP_LINEAR /\ Elapsed % td.dt = 0)
    => td_res.num = td.data[(td.idx + Elapsed \div td.dt) % td.num_delay_step] * td.dt

\* row i of the initial_delay_data given at construction or reset
InitialRow(initial, i) ==
  IF initial.kind = "scalar" THEN initial.c
  ELSE IF initial.kind = "tensor" THEN TensorRow(i)
  ELSE IF initial.kind = "callable" THEN initial_delay_data_fn(i)
  ELSE 0

\* C3: LengthDelay read: for 0 <= steps_back < capacity, at(steps_back) returns
\* the ring slot at (write_index - steps_back - 1) mod capacity; so at(k) is the
\* sample written k updates before the latest one for k <= min(n, capacity-1)
\* (the construction sample counting as update 0), and on a fresh buffer at(k),
\* k >= 1, is row (delay_len - k) of initial_delay_data.
C3_LengthDelayRead ==
  (ld.exists /\ ld_res.status = "ok" /\ 0 <= ld_res.delay_len
     /\ ld_res.delay_len < ld.num_delay_step)
    => LET k == ld_res.delay_len
           n == NumUpdates(ld_hist)
       IN  /\ ld_res.value = ld.data[(ld.idx - k - 1) % ld.num_delay_step]
           /\ k <= n => ld_res.value = ld_hist.w[Len(ld_hist.w) - k]
           /\ (n = 0 /\ k >= 1)
                => ld_res.value = InitialRow(ld_hist.args.initial, ld.num_delay_step - 1 - k)

\* a read k >= 1 steps back after the write index has wrapped around
C3_Witness ==
  /\ ld.exists /\ ld_res.status = "ok"
  /\ ld_res.delay_len >= 1 /\ ld_res.delay_len < ld.num_delay_step
  /\ NumUpdates(ld_hist) >= ld.num_delay_step
  /\ ld_res.value # LastWritten(ld_hist)

capacity_span == (td.num_delay_step - 1) * td.dt

\* C6: with checking enabled a read fails exactly when query_time > current_time
\* or query_time < current_time - capacity_span.
C6_ReadBounds ==
  (td.exists /\ td_res.status # "none" /\ td_res.checking)
    => (td_res.status = "ValueError"
          <=> (\/ td_res.time > td.current_time
               \/ td_res.time < td.current_time - capacity_span))

C8_LengthReadBounds ==
  (ld.exists /\ ld_res.status # "none" /\ ld_res.checking
     /\ (ld_res.delay_len < 0 \/ ld_res.delay_len >= ld.num_delay_step))
    => ld_res.status = "ValueError"

\* C9: linear mode, inexact case: with steps = floor(elapsed/dt) and remainder =
\* elapsed - steps*dt # 0, an accepted read returns the interpolation between
\* the slots (write_index + steps) mod capacity and (write_index + steps + 1)
\* mod capacity with weight remainder/dt on the later slot.
C9_LinearInterpolation ==
  (AcceptedRingRead /\ td.interp_method = _INTERP_LINEAR /\ Elapsed % td.dt # 0)
    => LET steps == Elapsed \div td.dt
           remainder == Elapsed - steps * td.dt
           s0 == td.data[(td.idx + steps) % td.num_delay_step]
           s1 == td.data[(td.idx + steps + 1) % td.num_delay_step]
       IN  td_res.num = s0 * td.dt + remainder * (s1 - s0)

\* C10: nearest-step mode: an accepted read returns exactly the ring slot at
\* (write_index + round(elapsed/dt)) mod capacity.
\* (Stated for query times up to current_time, where it already fails.)
C10_RoundSlot ==
  (AcceptedRingRead /\ NotAfterCurrentTime /\ td.interp_method = _INTERP_ROUND)
    => td_res.num
         = td.data[(td.idx + RoundDiv(Elapsed, td.dt)) % td.num_delay_step] * td.dt

\* C11: before-start rule: on a buffer that holds a before_t0 function, every
\* accepted read with query_time < t0 (the buffer's t0 attribute) returns
\* before_t0(query_time) = query_time in the sample shape, whatever the ring
\* holds and however many updates have happened; an accepted read with
\* query_time >= t0 is served from the ring.
C11_BeforeStartRule ==
  (td.exists /\ td_res.status = "ok" /\ td.before_type = _FUNC_BEFORE)
    => /\ td_res.shape = td.shape
       /\ IF td_res.time < td.t0
          THEN td_res.from = "before_t0" /\ td_res.num = td_res.time * td.dt
          ELSE td_res.from = "ring" /\ td_res.num = _after_t0(td, td_res.time)

\* a read before t0 on an updated buffer whose ring would have given another value
C11_Witness ==
  /\ td.exists /\ td_res.status = "ok" /\ td_res.checking
  /\ td.before_type = _FUNC_BEFORE
  /\ td_res.time < td.t0
  /\ NumUpdates(td_hist) >= 2
  /\ td_res.from = "before_t0"
  /\ td_res.num # _after_t0(td, td_res.time)

\* the buffer was constructed with before_t0 = lambda t: t at t0 = 0 with the
\* sample f(0) = 0, was not reset, and every update wrote value = time
FilledWithIdentity ==
  /\ td.exists /\ ~td_hist.was_reset
  /\ td_hist.args.before.kind = "callable"
  /\ \A j \in 1 .. Len(td_hist.w) : td_hist.w[j] = (j - 1) * td.dt

Abs(x) == IF x < 0 THEN -x ELSE x

\* C12: interpolation round trip: on a buffer filled with f(t) = t (before-start
\* function, value = time at each update) an accepted read at a time t strictly
\* inside the retained history (current_time - delay_len, current_time) returns
\* t in linear mode and a value within dt/2 of t in nearest-step mode.
C12_InterpolationRoundTrip ==
  (FilledWithIdentity /\ td_res.status = "ok" /\ td_res.checking
     /\ td.current_time - td.delay_len < td_res.time
     /\ td_res.time < td.current_time)
    => IF td.interp_method = _INTERP_LINEAR
       THEN td_res.num = td_res.time * td.dt
       ELSE 2 * Abs(td_res.num - td_res.time * td.dt) <= td.dt * td.dt

\* row i of the before_t0 data given at construction or reset
BeforeRow(before, i) ==
  IF before.kind = "scalar" THEN before.c
  ELSE IF before.kind = "tensor" THEN TensorRow(i)
  ELSE 0

\* C13: after a reset that returned, and before the next update, capacity is
\* the value derived from the new delay length, the sample shape is the shape of
\* the new initial sample, the ring has exactly capacity rows, all zero except
\* the last one (the new initial sample) and the before-start fill supplied, and
\* write_index is 0, whatever happened before the reset.
C13_ResetReinitializes ==
  /\ (td.exists /\ td_hist.op = "reset" /\ td_hist.raised = "None")
       => LET a == td_hist.args
              n == Ceil(a.delay_len, td.dt) + 1
          IN  /\ td.num_delay_step = n
              /\ td.shape = a.shape
              /\ DOMAIN td.data = 0 .. n - 1
              /\ \A i \in 0 .. n - 1 :
                    td.data[i] = IF i = n - 1 THEN a.delay_target ELSE BeforeRow(a.before, i)
              /\ td.idx = 0
  /\ (ld.exists /\ ld_hist.op = "reset" /\ ld_hist.raised = "None")
       => LET a == ld_hist.args
              n == a.delay_len + 1
          IN  /\ ld.num_delay_step = n
              /\ ld.shape = a.shape
              /\ DOMAIN ld.data = 0 .. n - 1
              /\ \A i \in 0 .. n - 1 :
                    ld.data[i] = IF i = n - 1 THEN a.delay_target ELSE InitialRow(a.initial, i)
              /\ ld.idx = 0

\* C14: an update whose value has another shape than the buffer's sample shape
\* (a scalar given to a non-scalar buffer included) fails; an update whose value
\* has the sample shape is accepted, and the value is then the newest sample,
\* in the slot before the advanced write_index.
C14_UpdateShapeCheck ==
  /\ (td.exists /\ td_hist.op = "update")
       => IF td_hist.vshape # td.shape
          THEN td_hist.raised # "None"
          ELSE /\ td_hist.raised = "None"
               /\ td.data[(td.idx - 1) % td.num_delay_step] = LastWritten(td_hist)
  /\ (ld.exists /\ ld_hist.op = "update")
       => IF ld_hist.vshape # ld.shape
          THEN ld_hist.raised # "None"
          ELSE /\ ld_hist.raised = "None"
               /\ ld.data[(ld.idx - 1) % ld.num_delay_step] = LastWritten(ld_hist)

\* C30: linear mode: for every read that the bounds check accepts and that
\* is served from the ring (queries up to dt older than current_time -
\* delay_len included), the number of steps is floor(elapsed / dt) and the
\* remainder elapsed - steps * dt is in [0, dt), so that the interpolation
\* weight remainder / dt is in [0, 1).
C30_LinearStepsFloor ==
  (AcceptedRingRead /\ td.interp_method = _INTERP_LINEAR)
    => LET l == LinearSteps(td, td_res.time)
       IN  /\ l.diff = Elapsed
           /\ l.req_num_step = Elapsed \div td.dt
           /\ 0 <= l.extra /\ l.extra < td.dt

\* C35: a TimeDelay read at query_time = current_time returns the most recently
\* written sample (the construction sample before any update), whatever
\* delay_len and dt are.
C35_ReadAtCurrentTime ==
  (td.exists /\ td_res.status = "ok" /\ td_res.time = td.current_time)
    => td_res.num = LastWritten(td_hist) * td.dt

\* two TimeDelay buffers that answer every sequence of updates and reads alike:
\* all fields are equal, t0 being read only under the function rule
SameTimeDelay(a, b) ==
  /\ a.shape = b.shape /\ a.dt = b.dt /\ a.interp_method = b.interp_method
  /\ a.delay_len = b.delay_len /\ a.num_delay_step = b.num_delay_step
  /\ a.idx = b.idx /\ a.current_time = b.current_time /\ a.data = b.data
  /\ a.before_type = b.before_type
  /\ a.before_type = _FUNC_BEFORE => a.t0 = b.t0

\* C36: reset is equivalent to fresh construction: right after a reset the
\* buffer is in the state of a newly constructed buffer with the arguments of
\* the reset (and the same dt and interpolation mode), whatever it was before,
\* and so answers every later update and read as that buffer would.
C36_ResetIsConstruction ==
  /\ (td.exists /\ td_hist.op = "reset")
       => LET a == td_hist.args
          IN  SameTimeDelay(td, TimeDelay_init(a.delay_target, a.shape, a.delay_len, a.before,
                                               a.t0, td.dt, td.interp_method))
  /\ (ld.exists /\ ld_hist.op = "reset")
       => LET a == ld_hist.args
          IN  ld = LengthDelay_reset(a.delay_target, a.shape, a.delay_len, a.initial)

\* the fields of a buffer other than the ring, the write index and the time
Fixed(d) == [f \in DOMAIN d \ {"data", "idx", "current_time"} |-> d[f]]

\* the ring r2 differs from the ring r1 at most in slot i, where it holds value
OneSlotWritten(r1, r2, i, value) ==
  /\ DOMAIN r2 = DOMAIN r1
  /\ r2[i] = value
  /\ \A j \in DOMAIN r1 \ {i} : r2[j] = r1[j]

====
